---- MODULE Spec2Model ----
(***************************************************************************)
(* ajt-validator: a model of the field validators (src/src/validators and  *)
(* the URL / credit-card / phone / token / gender sources), their shared    *)
(* result protocol, and the calls a program makes on one validator          *)
(* instance.                                                                *)
(*                                                                          *)
(* Strings are sequences of one-character strings.  A JavaScript value is   *)
(* a tagged record (null, undefined, string, number, NaN, boolean, object,  *)
(* Date); a call either returns a ValidationResult or throws.               *)
(***************************************************************************)
EXTENDS Integers, Sequences, FiniteSets, TLC

VARIABLES inst, lastIndex, now, op, arg, out, prevOut, repeated, sess

vars == <<inst, lastIndex, now, op, arg, out, prevOut, repeated, sess>>

(***************************************************************************)
(* JavaScript values                                                        *)
(***************************************************************************)
Null == [t |-> "null"]
Undef == [t |-> "undefined"]
NaN == [t |-> "nan"]
Str(s) == [t |-> "string", s |-> s]
\* a number n + c/100 (c in 0..99); NumHalf(n) is n + 0.5
Num(n) == [t |-> "number", n |-> n, c |-> 0]
NumHalf(n) == [t |-> "number", n |-> n, c |-> 50]
Hundredths(h) == [t |-> "number", n |-> h \div 100, c |-> h % 100]
ToHundredths(v) == 100 * v.n + v.c
Bool(b) == [t |-> "boolean", b |-> b]
Obj(o) == [t |-> "object", o |-> o]
DateV(d) == [t |-> "date", d |-> d]

IsNullish(v) == v.t \in {"null", "undefined"}
IsString(v) == v.t = "string"

\* !v : null, undefined, "", 0, NaN and false are falsy
Falsy(v) ==
    \/ v.t \in {"null", "undefined", "nan"}
    \/ (v.t = "string" /\ Len(v.s) = 0)
    \/ (v.t = "number" /\ v.n = 0 /\ v.c = 0)
    \/ (v.t = "boolean" /\ ~v.b)

Truthy(v) == ~Falsy(v)

\* v.f : reading a property of null/undefined throws, of a primitive gives undefined
CanRead(v) == ~IsNullish(v)
Field(v, f) == IF v.t = "object" /\ f \in DOMAIN v.o THEN v.o[f] ELSE Undef

\* v.method() for a String.prototype method (trim, replace, startsWith, ...):
\* a TypeError unless v is a string
HasStringMethods(v) == v.t = "string"

(***************************************************************************)
(* Characters and strings                                                   *)
(***************************************************************************)
LowerSeq == <<"a","b","c","d","e","f","g","h","i","j","k","l","m",
              "n","o","p","q","r","s","t","u","v","w","x","y","z">>
UpperSeq == <<"A","B","C","D","E","F","G","H","I","J","K","L","M",
              "N","O","P","Q","R","S","T","U","V","W","X","Y","Z">>
DigitSeq == <<"0","1","2","3","4","5","6","7","8","9">>

Lowers == {LowerSeq[i] : i \in 1..26}
Uppers == {UpperSeq[i] : i \in 1..26}
Letters == Lowers \cup Uppers
Digits == {DigitSeq[i] : i \in 1..10}
AlphaNum == Letters \cup Digits
Spaces == {" ", "\t", "\n"}

\* parseInt of one character (NaN is not needed: callers test \d first or are
\* given digits; a non-digit is reported as -1)
DigitVal(c) == IF c \in Digits THEN (CHOOSE i \in 1..10 : DigitSeq[i] = c) - 1 ELSE -1

LowerChar(c) == IF c \in Uppers THEN LowerSeq[CHOOSE i \in 1..26 : UpperSeq[i] = c] ELSE c
UpperChar(c) == IF c \in Lowers THEN UpperSeq[CHOOSE i \in 1..26 : LowerSeq[i] = c] ELSE c

ToLowerCase(s) == [i \in 1..Len(s) |-> LowerChar(s[i])]
ToUpperCase(s) == [i \in 1..Len(s) |-> UpperChar(s[i])]

AllIn(s, cs) == \A i \in 1..Len(s) : s[i] \in cs
AnyIn(s, cs) == \E i \in 1..Len(s) : s[i] \in cs

\* s.replace(/[cs]/g, '')
Strip(s, cs) == SelectSeq(s, LAMBDA c : c \notin cs)
\* s.replace(/\D/g, '')
DigitsOnly(s) == SelectSeq(s, LAMBDA c : c \in Digits)

RECURSIVE TrimStart(_)
TrimStart(s) == IF Len(s) > 0 /\ Head(s) \in Spaces THEN TrimStart(Tail(s)) ELSE s
RECURSIVE TrimEnd(_)
TrimEnd(s) ==
    IF Len(s) > 0 /\ s[Len(s)] \in Spaces THEN TrimEnd(SubSeq(s, 1, Len(s) - 1)) ELSE s
Trim(s) == TrimEnd(TrimStart(s))

StartsWith(s, p) == Len(p) <= Len(s) /\ SubSeq(s, 1, Len(p)) = p
EndsWith(s, p) == Len(p) <= Len(s) /\ SubSeq(s, Len(s) - Len(p) + 1, Len(s)) = p
Includes(s, p) == \E i \in 1..(Len(s) - Len(p) + 1) : SubSeq(s, i, i + Len(p) - 1) = p
Count(s, c) == Len(SelectSeq(s, LAMBDA x : x = c))
\* index of the first c in s, 0 when there is none
IndexOf(s, c) == IF \E i \in 1..Len(s) : s[i] = c
                 THEN CHOOSE i \in 1..Len(s) : s[i] = c /\ \A j \in 1..(i - 1) : s[j] # c
                 ELSE 0

RECURSIVE IntToStr(_)
IntToStr(n) == IF n < 10 THEN <<DigitSeq[n + 1]>>
               ELSE IntToStr(n \div 10) \o <<DigitSeq[(n % 10) + 1]>>

\* String(v), as RegExp.prototype.test and String() coerce their argument
ToStr(v) ==
    CASE v.t = "string" -> v.s
      [] v.t = "number" -> IF v.c = 0 THEN IntToStr(v.n)
                           ELSE IF v.c % 10 = 0 THEN IntToStr(v.n) \o <<".">> \o IntToStr(v.c \div 10)
                           ELSE IF v.c < 10 THEN IntToStr(v.n) \o <<".", "0">> \o IntToStr(v.c)
                           ELSE IntToStr(v.n) \o <<".">> \o IntToStr(v.c)
      [] v.t = "null" -> <<"n","u","l","l">>
      [] v.t = "undefined" -> <<"u","n","d","e","f","i","n","e","d">>
      [] v.t = "nan" -> <<"N","a","N">>
      [] v.t = "boolean" -> IF v.b THEN <<"t","r","u","e">> ELSE <<"f","a","l","s","e">>
      [] OTHER -> <<"[","o","b","j","e","c","t"," ","O","b","j","e","c","t","]">>

(***************************************************************************)
(* Regular expressions supplied in options: ^[chars]{min,max}$ with or      *)
(* without the g flag.  test() on a global RegExp starts at the object's    *)
(* lastIndex and leaves the end of the match (or 0) there.                  *)
(***************************************************************************)
Unbounded == 0 - 1

Pattern(cs, lo, hi, g) == [chars |-> cs, min |-> lo, max |-> hi, global |-> g]

PatternMatches(p, s) ==
    /\ AllIn(s, p.chars)
    /\ Len(s) >= p.min
    /\ (p.max = Unbounded \/ Len(s) <= p.max)

\* RegExp.prototype.test(s) with the cursor at li: <<result, new cursor>>
RegExpTest(p, s, li) ==
    IF ~p.global THEN <<PatternMatches(p, s), li>>
    ELSE IF li = 0 /\ PatternMatches(p, s) THEN <<TRUE, Len(s)>>
    ELSE <<FALSE, 0>>

(***************************************************************************)
(* The result protocol (interfaces/result.interface.ts, base.validator.ts)  *)
(***************************************************************************)
None == <<>>
Some(x) == <<x>>

\* a faulty createError that returns an empty errors list; the result invariant is
\* checked against it to see that it depends on createError
createErrorWithoutErrors(code) ==
    [threw |-> FALSE, isValid |-> FALSE, value |-> None, errors |-> Some(<<>>), meta |-> None]

\* a result: value and errors are None when the key is absent; meta holds the keys a
\* validator adds to the result (age category, detected authority, ...)
createError(code) ==
    [threw |-> FALSE, isValid |-> FALSE, value |-> None,
     errors |-> Some(<<[code |-> code]>>), meta |-> None]

createSuccess(value) ==
    [threw |-> FALSE, isValid |-> TRUE, value |-> Some(value), errors |-> None, meta |-> None]

\* the object literals validators return with extra keys
SuccessWith(value, meta) ==
    [threw |-> FALSE, isValid |-> TRUE, value |-> Some(value), errors |-> None,
     meta |-> Some(meta)]

\* an exception leaves validate: no result is returned
Throw == [threw |-> TRUE, isValid |-> FALSE, value |-> None, errors |-> None, meta |-> None]

ErrorCode(r) == r.errors[1][1].code
Failed(r, code) == ~r.threw /\ ~r.isValid /\ r.errors # None /\ Len(r.errors[1]) > 0
                   /\ ErrorCode(r) = code

(***************************************************************************)
(* String literals used by the options and the sample inputs               *)
(***************************************************************************)
S_example_com == <<"e","x","a","m","p","l","e",".","c","o","m">>
S_evil_org == <<"e","v","i","l",".","o","r","g">>
S_a_at_b_com == <<"a","@","b",".","c","o","m">>
S_A_at_B_COM == <<"A","@","B",".","C","O","M">>
S_user_at == <<"u","s","e","r","@">>
S_user_at_example_com == S_user_at \o S_example_com
S_user_at_sub_example_com == S_user_at \o <<"s","u","b",".">> \o S_example_com
S_user_at_notexample_com == S_user_at \o <<"n","o","t">> \o S_example_com
S_user_at_evil_org == S_user_at \o S_evil_org
S_quoted_at_b_com == <<"\"","x","@","y","\"","@","b",".","c","o","m">>
S_plain == <<"p","l","a","i","n">>
S_a_at_b == <<"a","@","b">>
S_sp_a_at_b_com == <<" ">> \o S_a_at_b_com
Repeat(c, n) == [i \in 1..n |-> c]

(***************************************************************************)
(* EmailValidator (contact/email.validator.ts)                              *)
(***************************************************************************)
EmailLocalChars == AlphaNum \cup {".", "_", "%", "+", "-"}
EmailDomainChars == AlphaNum \cup {".", "-"}
StrictExcluded == {"<", ">", "(", ")", "[", "]", "\\", ".", ",", ";", ":", "@", "\""} \cup Spaces

\* /^[a-zA-Z0-9._%+-]+@[a-zA-Z0-9.-]+\.[a-zA-Z]{2,}$/
simpleEmailPattern(s) ==
    \E i \in 1..Len(s) : \E j \in (i + 2)..Len(s) :
        /\ s[i] = "@" /\ s[j] = "."
        /\ i > 1 /\ AllIn(SubSeq(s, 1, i - 1), EmailLocalChars)
        /\ AllIn(SubSeq(s, i + 1, j - 1), EmailDomainChars)
        /\ Len(s) - j >= 2 /\ AllIn(SubSeq(s, j + 1, Len(s)), Letters)

\* [^<>()\[\]\\.,;:\s@"]+(\.[^<>()\[\]\\.,;:\s@"]+)*
StrictDotAtom(l) ==
    /\ Len(l) > 0 /\ l[1] # "." /\ l[Len(l)] # "."
    /\ \A i \in 1..Len(l) : l[i] = "." \/ l[i] \notin StrictExcluded
    /\ \A i \in 1..(Len(l) - 1) : ~(l[i] = "." /\ l[i + 1] = ".")
\* ".+"
StrictQuoted(l) ==
    Len(l) >= 3 /\ l[1] = "\"" /\ l[Len(l)] = "\"" /\ "\n" \notin {l[i] : i \in 1..Len(l)}
\* ([a-zA-Z\-0-9]+\.)+[a-zA-Z]{2,}
StrictHost(d) ==
    \E j \in 2..Len(d) :
        /\ d[j] = "." /\ Len(d) - j >= 2 /\ AllIn(SubSeq(d, j + 1, Len(d)), Letters)
        /\ d[1] # "." /\ AllIn(SubSeq(d, 1, j - 1), AlphaNum \cup {"-", "."})
        /\ \A i \in 1..(j - 1) : ~(d[i] = "." /\ d[i + 1] = ".")
\* \[[0-9]{1,3}\.[0-9]{1,3}\.[0-9]{1,3}\.[0-9]{1,3}]
StrictIpLiteral(d) ==
    /\ Len(d) >= 9 /\ d[1] = "[" /\ d[Len(d)] = "]"
    /\ LET b == SubSeq(d, 2, Len(d) - 1)
       IN /\ AllIn(b, Digits \cup {"."}) /\ Count(b, ".") = 3
          /\ b[1] # "." /\ b[Len(b)] # "."
          /\ \A i \in 1..(Len(b) - 1) : ~(b[i] = "." /\ b[i + 1] = ".")
          /\ \A i \in 1..(Len(b) - 3) : ~AllIn(SubSeq(b, i, i + 3), Digits)
strictEmailPattern(s) ==
    \E i \in 2..(Len(s) - 1) :
        /\ s[i] = "@"
        /\ (StrictDotAtom(SubSeq(s, 1, i - 1)) \/ StrictQuoted(SubSeq(s, 1, i - 1)))
        /\ (StrictIpLiteral(SubSeq(s, i + 1, Len(s))) \/ StrictHost(SubSeq(s, i + 1, Len(s))))

\* email.split('@')[1]: the text between the first '@' and the next one
SplitAt1(s) ==
    LET i == IndexOf(s, "@")
        rest == SubSeq(s, i + 1, Len(s))
        k == IndexOf(rest, "@")
    IN  IF k = 0 THEN rest ELSE SubSeq(rest, 1, k - 1)

\* a faulty match that accepts the listed domain only, not its subdomains
DomainMatchesExactly(domain, d) == domain = ToLowerCase(d)

\* domain === d.toLowerCase() || domain.endsWith('.' + d.toLowerCase())
DomainMatches(domain, d) ==
    domain = ToLowerCase(d) \/ EndsWith(domain, <<".">> \o ToLowerCase(d))

\* faulty defaults with a maximum length of 6
EmailDefaultsShort == [allowedDomains |-> <<>>, blockedDomains |-> <<>>, maxLength |-> 6,
                       strictMode |-> FALSE]

EmailDefaults == [allowedDomains |-> <<>>, blockedDomains |-> <<>>, maxLength |-> 254,
                  strictMode |-> FALSE]

EmailValidate(o, email) ==
    IF Falsy(email) THEN createError("EMAIL_REQUIRED")
    ELSE IF IsString(email) /\ Len(email.s) > o.maxLength THEN createError("EMAIL_TOO_LONG")
    ELSE IF ~(IF o.strictMode THEN strictEmailPattern(ToStr(email))
                              ELSE simpleEmailPattern(ToStr(email)))
        THEN createError("INVALID_EMAIL_FORMAT")
    ELSE IF ~HasStringMethods(email) THEN Throw
    ELSE LET domain == ToLowerCase(SplitAt1(email.s))
         IN IF /\ Len(o.allowedDomains) > 0
               /\ ~\E k \in 1..Len(o.allowedDomains) : DomainMatches(domain, o.allowedDomains[k])
            THEN createError("DOMAIN_NOT_ALLOWED")
            ELSE IF /\ Len(o.blockedDomains) > 0
                    /\ \E k \in 1..Len(o.blockedDomains) :
                           DomainMatches(domain, o.blockedDomains[k])
            THEN createError("DOMAIN_BLOCKED")
            ELSE createSuccess(Str(ToLowerCase(Trim(email.s))))

EmailOptionSet ==
    { EmailDefaults,
      [EmailDefaults EXCEPT !.allowedDomains = <<S_example_com>>],
      [EmailDefaults EXCEPT !.blockedDomains = <<S_evil_org>>],
      [EmailDefaults EXCEPT !.strictMode = TRUE],
      [EmailDefaults EXCEPT !.strictMode = TRUE, !.allowedDomains = <<S_example_com>>,
                            !.blockedDomains = <<S_evil_org>>],
      [EmailDefaults EXCEPT !.maxLength = 6] }

EmailInputs ==
    { Null, Undef, Str(<<>>), Num(0), Num(42), Obj([email |-> Str(S_a_at_b_com)]),
      Str(S_a_at_b_com), Str(S_A_at_B_COM), Str(S_user_at_example_com),
      Str(S_user_at_sub_example_com), Str(S_user_at_notexample_com),
      Str(S_user_at_evil_org), Str(S_quoted_at_b_com), Str(S_plain), Str(S_a_at_b),
      Str(S_sp_a_at_b_com), Str(Repeat("a", 249) \o S_a_at_b_com), Str(Repeat("a", 255)) }


\* v.length < n and v.length > n: undefined (a non-string's length) compares false
LengthBelow(v, n) == IsString(v) /\ Len(v.s) < n
LengthAbove(v, n) == IsString(v) /\ Len(v.s) > n

\* v?.trim(): undefined for null/undefined, a TypeError for any other non-string
OptTrimThrows(v) == ~IsNullish(v) /\ ~IsString(v)
OptTrim(v) == IF IsString(v) THEN Str(Trim(v.s)) ELSE Undef

(***************************************************************************)
(* PhoneValidator (unnamed/part_003)                                        *)
(***************************************************************************)
S_555_1234 == <<"5","5","5","-","1","2","3","4">>
S_4155552671 == <<"4","1","5","5","5","5","2","6","7","1">>
S_plus1_415 == <<"+","1">> \o S_4155552671
S_plus44_20 == <<"+","4","4","2","0","7","9","4","6","0","9","5","8">>
S_plus61_4 == <<"+","6","1","4","1","2","3","4","5","6","7","8">>
S_plus33_1 == <<"+","3","3","1","4","2","6","8","5","3","0","0">>
S_plus_paren == <<"+","(","4","4",")","2","0","7","9","4","6","0">>
S_ext == S_4155552671 \o <<"x","1","2","3","4","5","6">>
S_paren_phone == <<"(","4","1","5",")"," ","5","5","5","-","2","6","7","1"," ">>

PhoneChars == Digits \cup Spaces \cup {"-", "(", ")"}

\* /^[+]?[0-9\s-()]+$/
basicPhonePattern(s) ==
    LET body == IF Len(s) > 0 /\ s[1] = "+" THEN Tail(s) ELSE s
    IN  Len(body) > 0 /\ AllIn(body, PhoneChars)

\* phone.match(/^\+([0-9]{1,3})/): the (greedy) capture, <<>> when there is no match
RECURSIVE LeadingDigits(_, _)
LeadingDigits(s, n) ==
    IF n = 0 \/ Len(s) = 0 \/ Head(s) \notin Digits THEN <<>>
    ELSE <<Head(s)>> \o LeadingDigits(Tail(s), n - 1)
LeadingDigitsFirst(s, n) == LeadingDigits(s, 1)
countryCodeMatch(phone) == LeadingDigits(Tail(phone), 3)

\* phone.split(/[xX]/)[0] and whether the split has more than one part
HasExtension(s) == AnyIn(s, {"x", "X"})
MainPart(s) ==
    IF HasExtension(s)
    THEN SubSeq(s, 1, (CHOOSE i \in 1..Len(s) :
                         s[i] \in {"x", "X"} /\ \A j \in 1..(i - 1) : s[j] \notin {"x", "X"}) - 1)
    ELSE s

PhoneDefaults == [allowedCountryCodes |-> <<>>, requireCountryCode |-> FALSE,
                  minLength |-> 7, maxLength |-> 15, allowExtension |-> TRUE]

PhoneValidate(o, phone) ==
    IF Falsy(phone) THEN createError("PHONE_REQUIRED")
    ELSE IF ~HasStringMethods(phone) THEN Throw
    ELSE LET p == phone.s
             digitsOnly == DigitsOnly(p)
         IN IF ~basicPhonePattern(p) THEN createError("INVALID_PHONE_FORMAT")
            ELSE IF o.requireCountryCode /\ ~StartsWith(p, <<"+">>)
                THEN createError("COUNTRY_CODE_REQUIRED")
            ELSE IF /\ StartsWith(p, <<"+">>) /\ Len(o.allowedCountryCodes) > 0
                    /\ countryCodeMatch(p) # <<>>
                    /\ ~\E k \in 1..Len(o.allowedCountryCodes) :
                           o.allowedCountryCodes[k] = countryCodeMatch(p)
                THEN createError("COUNTRY_CODE_NOT_ALLOWED")
            ELSE IF Len(digitsOnly) < o.minLength THEN createError("PHONE_TOO_SHORT")
            ELSE IF /\ Len(digitsOnly) > o.maxLength
                    /\ (IF HasExtension(p) /\ o.allowExtension
                        THEN Len(DigitsOnly(MainPart(p))) > o.maxLength
                        ELSE TRUE)
                THEN createError("PHONE_TOO_LONG")
            ELSE createSuccess(Str(Trim(p)))

PhoneOptionSet ==
    { PhoneDefaults,
      [PhoneDefaults EXCEPT !.allowedCountryCodes = <<<<"1">>, <<"4","4">>, <<"6","1">>>>],
      [PhoneDefaults EXCEPT !.allowedCountryCodes = <<<<"4","4","2">>>>],
      [PhoneDefaults EXCEPT !.requireCountryCode = TRUE],
      [PhoneDefaults EXCEPT !.allowExtension = FALSE],
      [PhoneDefaults EXCEPT !.maxLength = 10] }

PhoneInputs ==
    { Null, Undef, Str(<<>>), Num(0), Num(5551234), Bool(TRUE),
      Str(S_555_1234), Str(S_4155552671), Str(S_plus1_415), Str(S_plus44_20),
      Str(S_plus61_4), Str(S_plus33_1), Str(S_plus_paren), Str(S_ext),
      Str(S_paren_phone), Str(<<"1","2","3">>), Str(Repeat("9", 16)),
      Str(<<"a","b","c">>) }

(***************************************************************************)
(* AddressValidator (contact/address.validator.ts)                          *)
(***************************************************************************)
S_main_st == <<"1"," ","M","a","i","n"," ","S","t">>
S_city == <<"O","s","l","o">>
S_state == <<" ","N","Y"," ">>
S_zip == <<"1","2","3","4","5">>
S_zip_bad == <<"1","2">>
S_country == <<"U","S">>

PostalChars == AlphaNum \cup Spaces \cup {"-"}

AddressDefaults ==
    [streetRequired |-> TRUE, cityRequired |-> TRUE, stateRequired |-> TRUE,
     postalCodeRequired |-> TRUE, countryRequired |-> TRUE,
     maxStreetLength |-> 100, maxCityLength |-> 50, maxStateLength |-> 50,
     postalCodePattern |-> Pattern(PostalChars, 3, 10, FALSE)]

\* <<result, lastIndex of options.postalCodePattern>>
AddressValidate(o, address, li) ==
    IF Falsy(address) THEN <<createError("ADDRESS_REQUIRED"), li>>
    ELSE LET street == Field(address, "street")
             city == Field(address, "city")
             state == Field(address, "state")
             postalCode == Field(address, "postalCode")
             country == Field(address, "country")
             t == IF Truthy(postalCode)
                  THEN RegExpTest(o.postalCodePattern, ToStr(postalCode), li)
                  ELSE <<TRUE, li>>
         IN IF o.streetRequired /\ Falsy(street) THEN <<createError("STREET_REQUIRED"), li>>
            ELSE IF LengthAbove(street, o.maxStreetLength)
                THEN <<createError("STREET_TOO_LONG"), li>>
            ELSE IF o.cityRequired /\ Falsy(city) THEN <<createError("CITY_REQUIRED"), li>>
            ELSE IF LengthAbove(city, o.maxCityLength)
                THEN <<createError("CITY_TOO_LONG"), li>>
            ELSE IF o.stateRequired /\ Falsy(state) THEN <<createError("STATE_REQUIRED"), li>>
            ELSE IF LengthAbove(state, o.maxStateLength)
                THEN <<createError("STATE_TOO_LONG"), li>>
            ELSE IF o.postalCodeRequired /\ Falsy(postalCode)
                THEN <<createError("POSTAL_CODE_REQUIRED"), li>>
            ELSE IF ~t[1] THEN <<createError("INVALID_POSTAL_CODE"), t[2]>>
            ELSE IF o.countryRequired /\ Falsy(country)
                THEN <<createError("COUNTRY_REQUIRED"), t[2]>>
            ELSE IF \E v \in {street, city, state, postalCode, country} : OptTrimThrows(v)
                THEN <<Throw, t[2]>>
            ELSE <<createSuccess(Obj([street |-> OptTrim(street), city |-> OptTrim(city),
                                      state |-> OptTrim(state),
                                      postalCode |-> OptTrim(postalCode),
                                      country |-> OptTrim(country)])), t[2]>>

AddressOptionSet ==
    { AddressDefaults,
      [AddressDefaults EXCEPT !.postalCodePattern = Pattern(PostalChars, 3, 10, TRUE)],
      [AddressDefaults EXCEPT !.streetRequired = FALSE, !.cityRequired = FALSE,
                              !.stateRequired = FALSE, !.postalCodeRequired = FALSE,
                              !.countryRequired = FALSE],
      [AddressDefaults EXCEPT !.maxCityLength = 3] }

Address(street, city, state, postalCode, country) ==
    Obj([street |-> street, city |-> city, state |-> state, postalCode |-> postalCode,
         country |-> country])

AddressInputs ==
    { Null, Undef, Str(<<>>), Str(S_main_st), Num(7),
      Address(Undef, Undef, Undef, Undef, Undef),
      Address(Str(<<>>), Str(S_city), Str(S_state), Str(S_zip), Str(S_country)),
      Address(Str(S_main_st), Str(S_city), Str(S_state), Str(S_zip), Str(S_country)),
      Address(Str(S_main_st), Str(S_city), Str(S_state), Str(S_zip_bad), Str(S_country)),
      Address(Str(S_main_st), Str(S_city), Str(S_state), Num(12345), Str(S_country)),
      Address(Str(S_main_st), Str(S_city), Str(S_state), Str(S_zip), Undef),
      Address(Str(S_main_st), Undef, Str(S_state), Str(S_zip), Str(S_country)),
      Address(Str(S_main_st), Str(S_city), Null, Str(S_zip), Str(S_country)),
      Address(Num(0), Str(S_city), Str(S_state), Str(S_zip), Str(S_country)) }

(***************************************************************************)
(* NameValidator (personal/name.validator.ts)                               *)
(***************************************************************************)
S_Al == <<"A","l">>
S_sp_Al_sp == <<" ","A","l"," ">>
S_two_spaces == <<" "," ">>
S_OBrien == <<"O","'","B","r","i","e","n">>
S_Ann_Lee == <<"A","n","n"," ","L","e","e">>
S_R2D2 == <<"R","2","D","2">>

NameDefaults == [minLength |-> 2, maxLength |-> 50, allowSpecialChars |-> FALSE]

\* /^[a-zA-Z\s'-]+$/ or /^[a-zA-Z\s]+$/
namePattern(o, s) ==
    /\ Len(s) > 0
    /\ AllIn(s, IF o.allowSpecialChars THEN Letters \cup Spaces \cup {"'", "-"}
                ELSE Letters \cup Spaces)

NameValidate(o, name) ==
    IF Falsy(name) THEN createError("NAME_REQUIRED")
    ELSE IF LengthBelow(name, o.minLength) THEN createError("NAME_TOO_SHORT")
    ELSE IF LengthAbove(name, o.maxLength) THEN createError("NAME_TOO_LONG")
    ELSE IF ~namePattern(o, ToStr(name)) THEN createError("INVALID_NAME_FORMAT")
    ELSE IF ~HasStringMethods(name) THEN Throw
    ELSE createSuccess(Str(Trim(name.s)))

NameOptionSet ==
    { NameDefaults,
      [NameDefaults EXCEPT !.allowSpecialChars = TRUE],
      [NameDefaults EXCEPT !.minLength = 3, !.maxLength = 5],
      [NameDefaults EXCEPT !.minLength = 1, !.allowSpecialChars = TRUE] }

NameInputs ==
    { Null, Undef, Str(<<>>), Num(0), Num(12), Bool(TRUE), Str(<<"A">>), Str(S_Al),
      Str(S_sp_Al_sp), Str(S_two_spaces), Str(S_OBrien), Str(S_Ann_Lee), Str(S_R2D2),
      Str(Repeat("a", 51)) }


(***************************************************************************)
(* The clock: the instants at which a call can be made.  y/m/d is the local *)
(* calendar date, tod is 0 at midnight sharp and 1 later in the day, sec is *)
(* Math.floor(Date.now() / 1000).                                           *)
(***************************************************************************)
Instants ==
    << [y |-> 2026, m |-> 2, d |-> 28, tod |-> 0, sec |-> 1000],
       [y |-> 2026, m |-> 2, d |-> 28, tod |-> 1, sec |-> 1300],
       [y |-> 2026, m |-> 3, d |-> 1,  tod |-> 1, sec |-> 1301],
       [y |-> 2026, m |-> 3, d |-> 30, tod |-> 1, sec |-> 1900],
       [y |-> 2030, m |-> 12, d |-> 31, tod |-> 1, sec |-> 9000] >>

Now(t) == Instants[t]

(***************************************************************************)
(* UsernameValidator (unnamed/part_006, second class)                       *)
(***************************************************************************)
S_admin == <<"a","d","m","i","n">>
S_Admin == <<"A","d","m","i","n">>
S_root == <<"r","o","o","t">>
S_system == <<"s","y","s","t","e","m">>
S_moderator == <<"m","o","d","e","r","a","t","o","r">>
S_Bob_99 == <<"B","o","b","_","9","9">>
S_sp_Bob_sp == <<" ","B","o","b"," ">>
S_bob_smith == <<"b","o","b"," ","s","m","i","t","h">>
S_bob_bang == <<"b","o","b","!">>

UsernameChars == AlphaNum \cup {"_", ".", "-"}

UsernameDefaults ==
    [minLength |-> 3, maxLength |-> 30, pattern |-> Pattern(UsernameChars, 1, Unbounded, FALSE),
     blockedUsernames |-> <<S_admin, S_root, S_system, S_moderator>>,
     allowSpaces |-> FALSE, caseSensitive |-> FALSE]

\* <<result, lastIndex of options.pattern>>
UsernameValidate(o, username, li) ==
    IF Falsy(username) THEN <<createError("USERNAME_REQUIRED"), li>>
    ELSE IF ~HasStringMethods(username) THEN <<Throw, li>>
    ELSE LET processedUsername == IF o.caseSensitive THEN Trim(username.s)
                                  ELSE ToLowerCase(Trim(username.s))
             t == RegExpTest(o.pattern, processedUsername, li)
             compareUsername == IF o.caseSensitive THEN processedUsername
                                ELSE ToLowerCase(processedUsername)
             isBlocked == \E k \in 1..Len(o.blockedUsernames) :
                              IF o.caseSensitive
                              THEN o.blockedUsernames[k] = compareUsername
                              ELSE ToLowerCase(o.blockedUsernames[k]) = compareUsername
         IN IF Len(processedUsername) < o.minLength
                THEN <<createError("USERNAME_TOO_SHORT"), li>>
            ELSE IF Len(processedUsername) > o.maxLength
                THEN <<createError("USERNAME_TOO_LONG"), li>>
            ELSE IF ~o.allowSpaces /\ AnyIn(processedUsername, Spaces)
                THEN <<createError("USERNAME_CONTAINS_SPACES"), li>>
            ELSE IF ~t[1] THEN <<createError("INVALID_USERNAME_FORMAT"), t[2]>>
            ELSE IF Len(o.blockedUsernames) > 0 /\ isBlocked
                THEN <<createError("USERNAME_BLOCKED"), t[2]>>
            ELSE <<createSuccess(Str(IF o.caseSensitive THEN processedUsername
                                     ELSE ToLowerCase(processedUsername))), t[2]>>

UsernameOptionSet ==
    { UsernameDefaults,
      [UsernameDefaults EXCEPT !.caseSensitive = TRUE],
      [UsernameDefaults EXCEPT !.pattern = Pattern(UsernameChars, 1, Unbounded, TRUE)],
      [UsernameDefaults EXCEPT !.allowSpaces = TRUE,
                               !.pattern = Pattern(UsernameChars \cup Spaces, 1, Unbounded, FALSE)],
      [UsernameDefaults EXCEPT !.maxLength = 5, !.blockedUsernames = <<>>] }

UsernameInputs ==
    { Null, Undef, Str(<<>>), Num(0), Num(123), Str(<<"a","b">>), Str(S_admin), Str(S_Admin),
      Str(S_Bob_99), Str(S_sp_Bob_sp), Str(S_bob_smith), Str(S_bob_bang),
      Str(Repeat("u", 31)), Str(<<" "," "," "," ">>) }

(***************************************************************************)
(* PasswordValidator (authentication/apiKey.validator.ts, second class)     *)
(***************************************************************************)
S_Passw0rd_bang == <<"P","a","s","s","w","0","r","d","!">>
S_password == <<"p","a","s","s","w","o","r","d">>
S_PASSWORD == <<"P","A","S","S","W","O","R","D">>
S_123456 == <<"1","2","3","4","5","6">>
S_qwerty == <<"q","w","e","r","t","y">>
S_Abc1_bang == <<"A","b","c","1","!">>
S_bobby == <<"b","o","b","b","y">>
S_Bobby_1_bang == <<"B","o","b","b","y","_","1","!","x">>
S_lower_only == <<"a","b","c","d","e","f","g","h","1","!">>
S_upper_only == <<"A","B","C","D","E","F","G","H","1","!">>
S_no_digit == <<"A","b","c","d","e","f","g","h","!","!">>
S_no_special == <<"A","b","c","d","e","f","g","h","1","1">>

SpecialChars ==
    {"!", "@", "#", "$", "%", "^", "&", "*", "(", ")", "_", "+", "-", "=", "[", "]", "{", "}",
     ";", "'", ":", "\"", "\\", "|", ",", ".", "<", ">", "/", "?"}

\* defaults that ask for no digit and no special character; the reachability of the
\* common-password rule is checked against them to see that it depends on the defaults
PasswordDefaultsLax ==
    [minLength |-> 8, maxLength |-> 128, requireUppercase |-> TRUE, requireLowercase |-> TRUE,
     requireNumbers |-> FALSE, requireSpecialChars |-> FALSE, disallowCommonPasswords |-> TRUE,
     preventUsernameInPassword |-> TRUE,
     commonPasswordsArray |-> <<S_password, S_123456, S_qwerty, S_admin>>]

PasswordDefaults ==
    [minLength |-> 8, maxLength |-> 128, requireUppercase |-> TRUE, requireLowercase |-> TRUE,
     requireNumbers |-> TRUE, requireSpecialChars |-> TRUE, disallowCommonPasswords |-> TRUE,
     preventUsernameInPassword |-> TRUE,
     commonPasswordsArray |-> <<S_password, S_123456, S_qwerty, S_admin>>]

\* a faulty validate that consults the common-password list before the character classes
PasswordValidateCommonFirst(o, passwordData) ==
    IF ~IsString(passwordData) THEN createError("PASSWORD_REQUIRED")
    ELSE LET text == passwordData.s
         IN IF Len(text) = 0 THEN createError("PASSWORD_REQUIRED")
            ELSE IF Len(text) < o.minLength THEN createError("PASSWORD_TOO_SHORT")
            ELSE IF Len(text) > o.maxLength THEN createError("PASSWORD_TOO_LONG")
            ELSE IF /\ o.disallowCommonPasswords
                    /\ \E k \in 1..Len(o.commonPasswordsArray) :
                           o.commonPasswordsArray[k] = ToLowerCase(text)
                THEN createError("PASSWORD_TOO_COMMON")
            ELSE IF o.requireUppercase /\ ~AnyIn(text, Uppers)
                THEN createError("PASSWORD_REQUIRES_UPPERCASE")
            ELSE IF o.requireLowercase /\ ~AnyIn(text, Lowers)
                THEN createError("PASSWORD_REQUIRES_LOWERCASE")
            ELSE IF o.requireNumbers /\ ~AnyIn(text, Digits)
                THEN createError("PASSWORD_REQUIRES_NUMBER")
            ELSE IF o.requireSpecialChars /\ ~AnyIn(text, SpecialChars)
                THEN createError("PASSWORD_REQUIRES_SPECIAL_CHAR")
            ELSE createSuccess(passwordData)

PasswordValidate(o, passwordData) ==
    IF ~IsString(passwordData) /\ ~CanRead(passwordData) THEN Throw
    ELSE LET password == IF IsString(passwordData) THEN passwordData
                         ELSE Field(passwordData, "password")
             username == IF IsString(passwordData) THEN Undef
                         ELSE Field(passwordData, "username")
             text == ToStr(password)
         IN IF Falsy(password) THEN createError("PASSWORD_REQUIRED")
            ELSE IF LengthBelow(password, o.minLength) THEN createError("PASSWORD_TOO_SHORT")
            ELSE IF LengthAbove(password, o.maxLength) THEN createError("PASSWORD_TOO_LONG")
            ELSE IF o.requireUppercase /\ ~AnyIn(text, Uppers)
                THEN createError("PASSWORD_REQUIRES_UPPERCASE")
            ELSE IF o.requireLowercase /\ ~AnyIn(text, Lowers)
                THEN createError("PASSWORD_REQUIRES_LOWERCASE")
            ELSE IF o.requireNumbers /\ ~AnyIn(text, Digits)
                THEN createError("PASSWORD_REQUIRES_NUMBER")
            ELSE IF o.requireSpecialChars /\ ~AnyIn(text, SpecialChars)
                THEN createError("PASSWORD_REQUIRES_SPECIAL_CHAR")
            ELSE IF o.disallowCommonPasswords /\ ~HasStringMethods(password) THEN Throw
            ELSE IF /\ o.disallowCommonPasswords
                    /\ \E k \in 1..Len(o.commonPasswordsArray) :
                           o.commonPasswordsArray[k] = ToLowerCase(password.s)
                THEN createError("PASSWORD_TOO_COMMON")
            ELSE IF /\ o.preventUsernameInPassword /\ Truthy(username)
                    /\ LengthAbove(username, 2) /\ ~HasStringMethods(password)
                THEN Throw
            ELSE IF /\ o.preventUsernameInPassword /\ Truthy(username)
                    /\ LengthAbove(username, 2)
                    /\ Includes(ToLowerCase(password.s), ToLowerCase(username.s))
                THEN createError("PASSWORD_CONTAINS_USERNAME")
            ELSE createSuccess(password)

PasswordOptionSet ==
    { PasswordDefaults,
      [PasswordDefaults EXCEPT !.minLength = 4, !.requireUppercase = FALSE,
                               !.requireNumbers = FALSE, !.requireSpecialChars = FALSE],
      [PasswordDefaults EXCEPT !.requireUppercase = FALSE, !.requireLowercase = FALSE,
                               !.requireNumbers = FALSE, !.requireSpecialChars = FALSE,
                               !.minLength = 1],
      [PasswordDefaults EXCEPT !.maxLength = 8, !.disallowCommonPasswords = FALSE] }

PasswordData(p, u) == Obj([password |-> p, username |-> u])

PasswordInputs ==
    { Null, Undef, Str(<<>>), Num(0), Num(12345678), PasswordData(Undef, Undef),
      PasswordData(Str(<<>>), Str(S_bobby)), PasswordData(Num(12345678), Undef),
      Str(S_Passw0rd_bang), Str(S_password), Str(S_PASSWORD), Str(S_123456), Str(S_qwerty),
      Str(S_admin), Str(S_Abc1_bang), Str(S_lower_only), Str(S_upper_only), Str(S_no_digit),
      Str(S_no_special), PasswordData(Str(S_Bobby_1_bang), Str(S_bobby)),
      PasswordData(Str(S_Bobby_1_bang), Str(<<"b","o">>)),
      PasswordData(Str(S_Passw0rd_bang), Str(S_bobby)), Str(Repeat("a", 129)) }

\* every spelling of a word in upper and lower case letters
RECURSIVE CaseVariants(_)
CaseVariants(s) ==
    IF Len(s) = 0 THEN {<<>>}
    ELSE { <<c>> \o t : c \in {LowerChar(Head(s)), UpperChar(Head(s))},
                         t \in CaseVariants(Tail(s)) }

\* every password whose lower-cased form is in the default common-password list
CommonPasswordInputs ==
    { Str(t) : t \in UNION { CaseVariants(PasswordDefaults.commonPasswordsArray[k]) :
                                k \in 1..Len(PasswordDefaults.commonPasswordsArray) } }


(***************************************************************************)
(* ApiKeyValidator (authentication/apiKey.validator.ts, first class)        *)
(***************************************************************************)
S_sk_ == <<"s","k","_">>
S_pk_ == <<"p","k","_">>
S_key16 == S_sk_ \o Repeat("a", 13)
S_key16_pk == S_pk_ \o Repeat("B", 13)
S_key16_zz == Repeat("z", 16)
S_key16_bang == Repeat("z", 15) \o <<"!">>
S_key16_sp == Repeat("z", 15) \o <<" ">>

ApiKeyChars == AlphaNum \cup {"_", "-"}

ApiKeyDefaults ==
    [minLength |-> 16, maxLength |-> 64, pattern |-> Pattern(ApiKeyChars, 1, Unbounded, FALSE),
     prefixRequired |-> <<>>, allowedPrefixes |-> <<>>]

\* <<result, lastIndex of options.pattern>>
ApiKeyValidate(o, apiKey, li) ==
    IF Falsy(apiKey) THEN <<createError("APIKEY_REQUIRED"), li>>
    ELSE IF LengthBelow(apiKey, o.minLength) THEN <<createError("APIKEY_TOO_SHORT"), li>>
    ELSE IF LengthAbove(apiKey, o.maxLength) THEN <<createError("APIKEY_TOO_LONG"), li>>
    ELSE LET t == RegExpTest(o.pattern, ToStr(apiKey), li)
         IN IF ~t[1] THEN <<createError("INVALID_APIKEY_FORMAT"), t[2]>>
            ELSE IF ~HasStringMethods(apiKey) THEN <<Throw, t[2]>>
            ELSE IF Len(o.prefixRequired) > 0 /\ ~StartsWith(apiKey.s, o.prefixRequired)
                THEN <<createError("INVALID_APIKEY_PREFIX"), t[2]>>
            ELSE IF /\ Len(o.allowedPrefixes) > 0
                    /\ ~\E k \in 1..Len(o.allowedPrefixes) :
                           StartsWith(apiKey.s, o.allowedPrefixes[k])
                THEN <<createError("INVALID_APIKEY_PREFIX"), t[2]>>
            ELSE <<createSuccess(Str(Trim(apiKey.s))), t[2]>>

ApiKeyOptionSet ==
    { ApiKeyDefaults,
      [ApiKeyDefaults EXCEPT !.pattern = Pattern(ApiKeyChars, 1, Unbounded, TRUE)],
      [ApiKeyDefaults EXCEPT !.prefixRequired = S_sk_],
      [ApiKeyDefaults EXCEPT !.allowedPrefixes = <<S_sk_, S_pk_>>],
      [ApiKeyDefaults EXCEPT !.pattern = Pattern(ApiKeyChars \cup Spaces, 1, Unbounded, FALSE),
                             !.maxLength = 16] }

ApiKeyInputs ==
    { Null, Undef, Str(<<>>), Num(0), Num(1234), Str(S_sk_), Str(S_key16), Str(S_key16_pk),
      Str(S_key16_zz), Str(S_key16_bang), Str(S_key16_sp), Str(Repeat("k", 65)),
      Str(Repeat("k", 17)) }

(***************************************************************************)
(* TokenValidator (unnamed/part_006, first class)                           *)
(***************************************************************************)
S_Bearer_ == <<"B","e","a","r","e","r"," ">>
S_Token_ == <<"T","o","k","e","n"," ">>
S_jwt == <<"a","b",".","c","-","d",".","e","_">>
S_jwt2 == <<"a","b",".","c","d",".">>
S_notjwt == <<"a","b","c","d","e","f","g","h">>
S_jwt4 == <<"a",".","b",".","c",".","d","e">>

TokenChars == AlphaNum \cup {"-", "_"}

\* /^[A-Za-z0-9-_]+\.[A-Za-z0-9-_]+\.[A-Za-z0-9-_]*$/
jwtPattern(s) ==
    \E i \in 2..Len(s) : \E j \in (i + 2)..Len(s) :
        /\ s[i] = "." /\ s[j] = "."
        /\ AllIn(SubSeq(s, 1, i - 1), TokenChars)
        /\ AllIn(SubSeq(s, i + 1, j - 1), TokenChars)
        /\ AllIn(SubSeq(s, j + 1, Len(s)), TokenChars)

\* the first allowed prefix the token starts with is cut off
RECURSIVE extractTokenValue(_, _)
extractTokenValue(prefixes, token) ==
    IF Len(prefixes) = 0 THEN token
    ELSE IF StartsWith(token, Head(prefixes))
         THEN SubSeq(token, Len(Head(prefixes)) + 1, Len(token))
         ELSE extractTokenValue(Tail(prefixes), token)

TokenDefaults ==
    [minLength |-> 8, maxLength |-> 2048, allowedPrefixes |-> <<S_Bearer_, S_Token_>>,
     validateJWT |-> FALSE, validateExpiry |-> TRUE]

TokenValidate(o, input, t) ==
    LET tokenData == IF IsString(input) THEN Obj([token |-> input]) ELSE input
    IN  IF Falsy(tokenData) \/ Falsy(Field(tokenData, "token"))
            THEN createError("TOKEN_REQUIRED")
        ELSE IF ~HasStringMethods(Field(tokenData, "token")) THEN Throw
        ELSE LET token == Trim(Field(tokenData, "token").s)
                 expiresAt == Field(tokenData, "expiresAt")
             IN IF Len(token) < o.minLength THEN createError("TOKEN_TOO_SHORT")
                ELSE IF Len(token) > o.maxLength THEN createError("TOKEN_TOO_LONG")
                ELSE IF o.validateJWT /\ ~jwtPattern(extractTokenValue(o.allowedPrefixes, token))
                    THEN createError("INVALID_JWT_FORMAT")
                ELSE IF /\ Len(o.allowedPrefixes) > 0
                        /\ ~\E k \in 1..Len(o.allowedPrefixes) :
                               StartsWith(token, o.allowedPrefixes[k])
                    THEN createError("INVALID_TOKEN_PREFIX")
                ELSE IF /\ o.validateExpiry /\ Truthy(expiresAt)
                        /\ expiresAt.t = "number" /\ Now(t).sec > expiresAt.n
                    THEN createError("TOKEN_EXPIRED")
                ELSE createSuccess(Obj([token |-> Str(token),
                                        issuedAt |-> Field(tokenData, "issuedAt"),
                                        expiresAt |-> expiresAt]))

TokenOptionSet ==
    { TokenDefaults,
      [TokenDefaults EXCEPT !.validateJWT = TRUE],
      [TokenDefaults EXCEPT !.allowedPrefixes = <<>>, !.validateJWT = TRUE],
      [TokenDefaults EXCEPT !.validateExpiry = FALSE, !.maxLength = 12] }

TokenData(tok, iat, exp) == Obj([token |-> tok, issuedAt |-> iat, expiresAt |-> exp])

TokenInputs ==
    { Null, Undef, Str(<<>>), Num(0), Num(99), TokenData(Undef, Undef, Undef),
      TokenData(Str(<<>>), Undef, Num(2000)), TokenData(Num(12345678), Undef, Undef),
      Str(S_Bearer_ \o S_jwt), Str(S_Token_ \o S_jwt2 \o <<" ">>), Str(S_jwt), Str(S_notjwt),
      Str(S_Bearer_ \o S_notjwt), Str(S_Bearer_ \o S_jwt4), Str(<<"a","b">>),
      TokenData(Str(S_Bearer_ \o S_jwt), Num(900), Num(1200)),
      TokenData(Str(S_Bearer_ \o S_jwt), Num(900), Num(2000)),
      TokenData(Str(S_Bearer_ \o S_jwt), Undef, Num(0)) }

(***************************************************************************)
(* TwoFactorValidator (unnamed/part_005)                                    *)
(***************************************************************************)
S_totp == <<"t","o","t","p">>
S_sms == <<"s","m","s">>
S_email == <<"e","m","a","i","l">>
S_app == <<"a","p","p">>
S_push == <<"p","u","s","h">>
S_12345a == <<"1","2","3","4","5","a">>
S_1234 == <<"1","2","3","4">>

TwoFactorDefaults ==
    [digitOnly |-> TRUE, exactLength |-> 6, allowedTypes |-> <<S_totp, S_sms, S_email, S_app>>,
     expiration |-> 300]

TwoFactorValidate(o, twoFactorData, t) ==
    IF Falsy(twoFactorData) THEN createError("TWOFACTOR_REQUIRED")
    ELSE LET code == Field(twoFactorData, "code")
             type == Field(twoFactorData, "type")
             timestamp == Field(twoFactorData, "timestamp")
         IN IF Falsy(code) THEN createError("TWOFACTOR_CODE_REQUIRED")
            ELSE IF o.exactLength # 0 /\ ~(IsString(code) /\ Len(code.s) = o.exactLength)
                THEN createError("INVALID_TWOFACTOR_LENGTH")
            ELSE IF o.digitOnly /\ ~(Len(ToStr(code)) > 0 /\ AllIn(ToStr(code), Digits))
                THEN createError("INVALID_TWOFACTOR_FORMAT")
            ELSE IF /\ Truthy(type)
                    /\ ~\E k \in 1..Len(o.allowedTypes) : Str(o.allowedTypes[k]) = type
                THEN createError("INVALID_TWOFACTOR_TYPE")
            ELSE IF /\ Truthy(timestamp) /\ o.expiration # 0 /\ timestamp.t = "number"
                    /\ Now(t).sec > timestamp.n + o.expiration
                THEN createError("TWOFACTOR_EXPIRED")
            ELSE IF ~HasStringMethods(code) THEN Throw
            ELSE createSuccess(Obj([code |-> Str(Trim(code.s)), type |-> type,
                                    timestamp |-> timestamp]))

TwoFactorOptionSet ==
    { TwoFactorDefaults,
      [TwoFactorDefaults EXCEPT !.exactLength = 0],
      [TwoFactorDefaults EXCEPT !.digitOnly = FALSE, !.allowedTypes = <<S_totp>>],
      [TwoFactorDefaults EXCEPT !.expiration = 0],
      [TwoFactorDefaults EXCEPT !.expiration = 600] }

TwoFactorData(code, type, ts) == Obj([code |-> code, type |-> type, timestamp |-> ts])

TwoFactorInputs ==
    { Null, Undef, Str(<<>>), Str(S_123456), Num(0),
      TwoFactorData(Undef, Undef, Undef), TwoFactorData(Str(<<>>), Str(S_totp), Undef),
      TwoFactorData(Num(123456), Undef, Undef),
      TwoFactorData(Str(S_123456), Undef, Undef), TwoFactorData(Str(S_123456), Str(S_sms), Undef),
      TwoFactorData(Str(S_123456), Str(S_push), Undef),
      TwoFactorData(Str(S_12345a), Str(S_totp), Undef),
      TwoFactorData(Str(S_1234), Undef, Undef),
      TwoFactorData(Str(S_123456), Str(S_totp), Num(0)),
      TwoFactorData(Str(S_123456), Str(S_totp), Num(700)),
      TwoFactorData(Str(S_123456), Str(S_totp), Num(1000)),
      TwoFactorData(Str(S_123456), Str(S_totp), Num(1300)),
      TwoFactorData(Str(S_123456), Str(S_totp), Num(1600)) }


(***************************************************************************)
(* Dates: a Date object is a local calendar date and a time of day (tod 0   *)
(* is midnight, 1 is later in that day), or the invalid date.               *)
(***************************************************************************)
Date(y, m, d) == DateV([valid |-> TRUE, y |-> y, m |-> m, d |-> d, tod |-> 0])
InvalidDate == DateV([valid |-> FALSE])
Today(t) == [valid |-> TRUE, y |-> Now(t).y, m |-> Now(t).m, d |-> Now(t).d, tod |-> Now(t).tod]

IsLeap(y) == (y % 4 = 0 /\ y % 100 # 0) \/ y % 400 = 0
DaysInMonth(y, m) ==
    IF m = 2 THEN (IF IsLeap(y) THEN 29 ELSE 28)
    ELSE IF m \in {4, 6, 9, 11} THEN 30 ELSE 31
\* new Date(year, monthIndex, 0).getDate(): the length of the month before month m
DaysInPreviousMonth(y, m) == IF m = 1 THEN 31 ELSE DaysInMonth(y, m - 1)

CumDays == <<0, 31, 59, 90, 120, 151, 181, 212, 243, 273, 304, 334>>
DayNumber(dt) ==
    365 * (dt.y - 1) + ((dt.y - 1) \div 4) - ((dt.y - 1) \div 100) + ((dt.y - 1) \div 400)
    + CumDays[dt.m] + (IF dt.m > 2 /\ IsLeap(dt.y) THEN 1 ELSE 0) + dt.d

\* a > b, a >= b on Date objects (comparisons with the invalid date are false)
Stamp(dt) == 2 * DayNumber(dt) + dt.tod
DateAfter(a, b) == a.valid /\ b.valid /\ Stamp(a) > Stamp(b)
DateAtLeast(a, b) == a.valid /\ b.valid /\ Stamp(a) >= Stamp(b)

\* Math.round(100 * (months / 12 + days / 365.25)), in hundredths of a year
RoundedFraction(months, days) == (200 * (1461 * months + 48 * days) + 17532) \div 35064

(***************************************************************************)
(* AgeValidator (personal/age.validator.ts)                                 *)
(***************************************************************************)
S_child == <<"c","h","i","l","d">>
S_adult == <<"a","d","u","l","t">>

AgeDefaults == [minAge |-> 0, maxAge |-> 120, allowDecimals |-> FALSE,
                validateFromDate |-> FALSE, ageRanges |-> <<>>]

\* calculateAgeFromDate for a birth date not after today: years, months, days
AgeBreakdown(birth, today) ==
    LET y0 == today.y - birth.y
        m0 == today.m - birth.m
        d0 == today.d - birth.d
        m1 == IF d0 < 0 THEN m0 - 1 ELSE m0
        d1 == IF d0 < 0 THEN d0 + DaysInPreviousMonth(today.y, today.m) ELSE d0
    IN  [years |-> IF m1 < 0 THEN y0 - 1 ELSE y0,
         months |-> IF m1 < 0 THEN m1 + 12 ELSE m1,
         days |-> d1]

calculateAgeFromDateThrows(birthDate, today) == DateAfter(birthDate, today)

\* the calculated age in hundredths of a year
calculatedAge(o, b) ==
    IF o.allowDecimals THEN 100 * b.years + RoundedFraction(b.months, b.days)
    ELSE 100 * b.years

\* the first range holding the age (find), <<>> when there is none
RECURSIVE FindRange(_, _)
FindRange(ranges, a100) ==
    IF Len(ranges) = 0 THEN None
    ELSE IF a100 >= 100 * Head(ranges).min /\ a100 <= 100 * Head(ranges).max
         THEN Some(Head(ranges).name)
         ELSE FindRange(Tail(ranges), a100)

AgeChecks(o, a100, fromDate, detailed) ==
    IF ~o.allowDecimals /\ a100 % 100 # 0 THEN createError("DECIMALS_NOT_ALLOWED")
    ELSE IF a100 < 100 * o.minAge THEN createError("AGE_BELOW_MINIMUM")
    ELSE IF a100 > 100 * o.maxAge THEN createError("AGE_ABOVE_MAXIMUM")
    ELSE SuccessWith(Hundredths(a100),
                     [ageCategory |-> FindRange(o.ageRanges, a100),
                      calculatedAge |-> IF fromDate THEN Some(a100) ELSE None,
                      detailed |-> detailed])

AgeValidate(o, value, t) ==
    IF IsNullish(value) THEN createError("AGE_REQUIRED")
    ELSE IF value.t = "date" THEN
        IF ~o.validateFromDate THEN createError("DATE_NOT_ALLOWED")
        ELSE IF calculateAgeFromDateThrows(value.d, Today(t)) THEN Throw
        ELSE IF ~value.d.valid THEN createError("INVALID_AGE")
        ELSE LET b == AgeBreakdown(value.d, Today(t))
             IN  AgeChecks(o, calculatedAge(o, b), TRUE, Some(b))
    ELSE IF value.t # "number" THEN createError("INVALID_AGE")
    ELSE AgeChecks(o, ToHundredths(value), FALSE, None)

AgeOptionSet ==
    { AgeDefaults,
      [AgeDefaults EXCEPT !.validateFromDate = TRUE],
      [AgeDefaults EXCEPT !.validateFromDate = TRUE, !.allowDecimals = TRUE, !.minAge = 18],
      [AgeDefaults EXCEPT !.minAge = 18, !.maxAge = 65,
                          !.ageRanges = <<[name |-> S_child, min |-> 0, max |-> 17],
                                          [name |-> S_adult, min |-> 18, max |-> 64]>>] }

AgeInputs ==
    { Null, Undef, NaN, Str(<<>>), Str(<<"3","0">>), Num(0), Num(17), Num(30), Num(65),
      Num(121), NumHalf(18), InvalidDate, Date(2000, 1, 31), Date(2008, 3, 1),
      Date(2026, 2, 28), Date(2026, 3, 1), Date(2027, 1, 1), Date(1900, 12, 31) }

(***************************************************************************)
(* DOBValidator (personal/index.ts)                                         *)
(***************************************************************************)
S_iso_2000 == <<"2","0","0","0","-","0","1","-","3","1">>
S_us_2000 == <<"0","1","/","3","1","/","2","0","0","0">>
S_iso_2030 == <<"2","0","3","0","-","0","6","-","1","5">>
S_not_a_date == <<"s","o","o","n">>

TwoDigits(s, i) == 10 * DigitVal(s[i]) + DigitVal(s[i + 1])
FourDigits(s, i) == 100 * TwoDigits(s, i) + TwoDigits(s, i + 2)
IsCalendarDate(y, m, d) == m \in 1..12 /\ d >= 1 /\ d <= DaysInMonth(y, m)

\* parseDate on the strings of DOBInputs (clock in UTC): new Date(dateStr) reads a
\* YYYY-MM-DD or MM/DD/YYYY calendar date; a string with no digit passes the
\* constructor and the three format fallbacks unmatched and yields the invalid date
parseDate(s) ==
    IF /\ Len(s) = 10 /\ s[5] = "-" /\ s[8] = "-"
       /\ AllIn(SubSeq(s, 1, 4) \o SubSeq(s, 6, 7) \o SubSeq(s, 9, 10), Digits)
       /\ IsCalendarDate(FourDigits(s, 1), TwoDigits(s, 6), TwoDigits(s, 9))
    THEN Date(FourDigits(s, 1), TwoDigits(s, 6), TwoDigits(s, 9))
    ELSE IF /\ Len(s) = 10 /\ s[3] = "/" /\ s[6] = "/"
            /\ AllIn(SubSeq(s, 1, 2) \o SubSeq(s, 4, 5) \o SubSeq(s, 7, 10), Digits)
            /\ IsCalendarDate(FourDigits(s, 7), TwoDigits(s, 1), TwoDigits(s, 4))
    THEN Date(FourDigits(s, 7), TwoDigits(s, 1), TwoDigits(s, 4))
    ELSE InvalidDate

\* calculateAge(dob, referenceDate)
calculateAge(dob, referenceDate) ==
    LET y0 == referenceDate.y - dob.y
        m0 == referenceDate.m - dob.m
        d0 == referenceDate.d - dob.d
        d1 == IF d0 < 0 THEN d0 + DaysInPreviousMonth(referenceDate.y, referenceDate.m) ELSE d0
        m1 == IF d0 < 0 THEN m0 - 1 ELSE m0
        years == IF m1 < 0 THEN y0 - 1 ELSE y0
        months == IF m1 < 0 THEN m1 + 12 ELSE m1
    IN  [years |-> years, months |-> months, days |-> d1,
         decimalYears |-> 100 * years + RoundedFraction(months, d1)]

RECURSIVE FindDateRange(_, _)
FindDateRange(ranges, dt) ==
    IF Len(ranges) = 0 THEN None
    ELSE IF DateAtLeast(dt, Head(ranges).startDate) /\ DateAtLeast(Head(ranges).endDate, dt)
         THEN Some(Head(ranges).name)
         ELSE FindDateRange(Tail(ranges), dt)

DOBDefaults == [minAge |-> 0, maxAge |-> 120, allowFutureDates |-> FALSE,
                referenceDate |-> None, validRanges |-> <<>>]

DOBChecks(o, dateObj, t) ==
    LET referenceDate == IF o.referenceDate # None THEN o.referenceDate[1] ELSE Today(t)
        age == calculateAge(dateObj, referenceDate)
        category == FindDateRange(o.validRanges, dateObj)
    IN  IF ~o.allowFutureDates /\ DateAfter(dateObj, referenceDate)
            THEN createError("FUTURE_DATE")
        ELSE IF age.years < o.minAge THEN createError("BELOW_MINIMUM_AGE")
        ELSE IF age.years > o.maxAge THEN createError("ABOVE_MAXIMUM_AGE")
        ELSE IF Len(o.validRanges) > 0 /\ category = None
            THEN createError("OUTSIDE_VALID_RANGES")
        ELSE SuccessWith(DateV(dateObj),
                         [age |-> age, category |-> category,
                          isLegalAge |-> age.years >= o.minAge])

DOBValidate(o, value, t) ==
    IF IsNullish(value) THEN createError("DOB_REQUIRED")
    ELSE IF IsString(value) THEN
        IF ~parseDate(value.s).d.valid THEN createError("INVALID_DATE_FORMAT")
        ELSE DOBChecks(o, parseDate(value.s).d, t)
    ELSE IF value.t = "date" THEN
        IF ~value.d.valid THEN createError("INVALID_DATE")
        ELSE DOBChecks(o, value.d, t)
    ELSE createError("INVALID_INPUT_TYPE")

DOBOptionSet ==
    { DOBDefaults,
      [DOBDefaults EXCEPT !.minAge = 18],
      [DOBDefaults EXCEPT !.allowFutureDates = TRUE, !.minAge = 0 - 10],
      [DOBDefaults EXCEPT !.referenceDate = Some(Date(2024, 3, 1).d)],
      [DOBDefaults EXCEPT !.validRanges =
           <<[name |-> S_adult, startDate |-> Date(1950, 1, 1).d,
              endDate |-> Date(2005, 12, 31).d]>>] }

DOBInputs ==
    { Null, Undef, Str(<<>>), Num(0), Num(2000), Str(S_iso_2000), Str(S_us_2000),
      Str(S_iso_2030), Str(S_not_a_date), InvalidDate, Date(2000, 1, 31), Date(2008, 3, 1),
      Date(2026, 1, 31), Date(2025, 12, 30), Date(2026, 3, 1), Date(2030, 6, 15),
      Date(1900, 12, 31), Date(2004, 2, 29) }


(***************************************************************************)
(* GenderValidator (unnamed/part_008)                                       *)
(***************************************************************************)
S_male == <<"m","a","l","e">>
S_Male == <<"M","a","l","e">>
S_sp_Male_sp == <<" ","M","a","l","e"," ">>
S_female == <<"f","e","m","a","l","e">>
S_non_binary == <<"n","o","n","-","b","i","n","a","r","y">>
S_other == <<"o","t","h","e","r">>
S_prefer_not_to_say == <<"p","r","e","f","e","r","-","n","o","t","-","t","o","-","s","a","y">>
S_prefer_not == <<"p","r","e","f","e","r"," ","n","o","t">>
S_m == <<"m">>
S_F == <<"F">>
S_nb == <<"n","b">>
S_agender == <<"a","g","e","n","d","e","r">>
S_constructor == <<"c","o","n","s","t","r","u","c","t","o","r">>
S_valueOf == <<"v","a","l","u","e","O","f">>

\* Object.values(GenderOption)
standardValues == <<S_male, S_female, S_non_binary, S_other, S_prefer_not_to_say>>

\* the default abbreviation mapping, a plain object: <<key, value>>
abbreviations ==
    << <<S_m, S_male>>, <<<<"f">>, S_female>>, <<S_nb, S_non_binary>>, <<<<"o">>, S_other>>,
       <<<<"x">>, S_other>>, <<<<"p","n","t","s">>, S_prefer_not_to_say>>,
       <<S_prefer_not, S_prefer_not_to_say>> >>

\* keys every plain object inherits from Object.prototype; their values are functions
InheritedKeys == {S_constructor, S_valueOf}
Function == [t |-> "function"]

\* this.abbreviations[key]
AbbreviationAt(key) ==
    IF \E i \in 1..Len(abbreviations) : abbreviations[i][1] = key
    THEN Str(abbreviations[CHOOSE i \in 1..Len(abbreviations) : abbreviations[i][1] = key][2])
    ELSE IF key \in InheritedKeys THEN Function
    ELSE Undef

GenderDefaults ==
    [allowedValues |-> standardValues, allowCustom |-> FALSE, customMaxLength |-> 50,
     normalize |-> TRUE, caseSensitive |-> FALSE, allowAbbreviations |-> TRUE]

InList(s, list) == \E i \in 1..Len(list) : list[i] = s
InListIgnoringCase(s, list) == \E i \in 1..Len(list) : ToLowerCase(list[i]) = ToLowerCase(s)

\* checkAllowedValue calls value.toLowerCase() in the case-insensitive branch
checkAllowedValueThrows(o, value) == ~o.caseSensitive /\ ~HasStringMethods(value)
checkAllowedValue(o, value, allowedValues) ==
    IF ~IsString(value) THEN FALSE
    ELSE IF o.caseSensitive THEN InList(value.s, allowedValues)
    ELSE InListIgnoringCase(value.s, allowedValues)

checkIsStandardOption(o, value) ==
    IF o.caseSensitive THEN InList(value, standardValues)
    ELSE InListIgnoringCase(value, standardValues)

\* expandAbbreviation: the keys of the default mapping are lower case, so the search
\* over Object.keys finds nothing the direct lookup missed
expandAbbreviation(o, abbr) ==
    IF o.caseSensitive THEN AbbreviationAt(abbr)
    ELSE IF Truthy(AbbreviationAt(ToLowerCase(abbr))) THEN AbbreviationAt(ToLowerCase(abbr))
    ELSE Undef

GenderValidate(o, value) ==
    IF IsNullish(value) \/ value = Str(<<>>) THEN createError("GENDER_REQUIRED")
    ELSE
    LET stringValue == ToStr(value)
        processedValue == IF ~o.normalize THEN stringValue
                          ELSE IF o.caseSensitive THEN Trim(stringValue)
                          ELSE ToLowerCase(Trim(stringValue))
        expandedValue == expandAbbreviation(o, processedValue)
    IN  IF checkAllowedValue(o, Str(processedValue), o.allowedValues)
            THEN SuccessWith(Str(stringValue),
                             [normalizedValue |-> processedValue, expandedValue |-> None,
                              isStandardOption |-> checkIsStandardOption(o, processedValue)])
        ELSE IF o.allowAbbreviations /\ Truthy(expandedValue)
                /\ checkAllowedValueThrows(o, expandedValue)
            THEN Throw
        ELSE IF o.allowAbbreviations /\ Truthy(expandedValue)
                /\ checkAllowedValue(o, expandedValue, o.allowedValues)
            THEN SuccessWith(Str(stringValue),
                             [normalizedValue |-> processedValue,
                              expandedValue |-> Some(expandedValue.s),
                              isStandardOption |-> checkIsStandardOption(o, expandedValue.s)])
        ELSE IF o.allowCustom THEN
            IF Len(processedValue) > (IF o.customMaxLength # 0 THEN o.customMaxLength ELSE 50)
            THEN createError("GENDER_TOO_LONG")
            ELSE SuccessWith(Str(stringValue),
                             [normalizedValue |-> processedValue, expandedValue |-> None,
                              isStandardOption |-> FALSE])
        ELSE createError("INVALID_GENDER")

GenderOptionSet ==
    { GenderDefaults,
      [GenderDefaults EXCEPT !.caseSensitive = TRUE],
      [GenderDefaults EXCEPT !.normalize = FALSE, !.allowAbbreviations = FALSE],
      [GenderDefaults EXCEPT !.allowCustom = TRUE, !.customMaxLength = 6],
      [GenderDefaults EXCEPT !.allowedValues = <<S_male, S_female>>] }

GenderInputs ==
    { Null, Undef, Str(<<>>), Num(0), Bool(FALSE), Str(S_male), Str(S_Male), Str(S_sp_Male_sp),
      Str(S_female), Str(S_other), Str(S_m), Str(S_F), Str(S_nb), Str(S_prefer_not),
      Str(S_agender), Str(S_constructor), Str(S_valueOf), Str(<<" ">>) }


(***************************************************************************)
(* PassportValidator (personal/name.validator.ts, second class)             *)
(***************************************************************************)
S_USA == <<"U","S","A">>
S_GBR == <<"G","B","R">>
S_CAN == <<"C","A","N">>
S_AUS == <<"A","U","S">>
S_NZL == <<"N","Z","L">>
S_DEU == <<"D","E","U">>
S_FRA == <<"F","R","A">>
S_ESP == <<"E","S","P">>
S_ITA == <<"I","T","A">>
S_JPN == <<"J","P","N">>
S_CHN == <<"C","H","N">>
S_IND == <<"I","N","D">>
S_RUS == <<"R","U","S">>
S_BRA == <<"B","R","A">>
S_ZAF == <<"Z","A","F">>
S_XYZ == <<"X","Y","Z">>
S_p_usa == <<"1","2","3","4","5","6","7","8","9">>
S_p_usa_sum == <<"2","2","2","2","2","2","2","2","4">>
S_p_can == <<"a","b","1","2","3","4","5","6">>
S_p_aus == <<"N","1","2","3","4","5","6","7">>
S_p_generic == <<"A","B","C","D","E">>
S_p_short == <<"A","1">>

\* Object.values(PassportAuthority), which is also the key order of PASSPORT_FORMATS
PassportAuthorities ==
    <<S_USA, S_GBR, S_CAN, S_AUS, S_NZL, S_DEU, S_FRA, S_ESP, S_ITA, S_JPN, S_CHN, S_IND,
      S_RUS, S_BRA, S_ZAF>>

UpperAlnum == Uppers \cup Digits

\* ^[A-Z]{k}[0-9]{n}$
LettersThenDigits(s, k, n) ==
    /\ Len(s) = k + n
    /\ AllIn(SubSeq(s, 1, k), Uppers)
    /\ AllIn(SubSeq(s, k + 1, k + n), Digits)

genericFormat(s) == Len(s) >= 5 /\ Len(s) <= 12 /\ AllIn(s, UpperAlnum)

\* PASSPORT_FORMATS[authority].test(s); a key with no entry falls back to generic
PassportFormat(authority, s) ==
    CASE authority = S_USA -> Len(s) = 9 /\ AllIn(s, UpperAlnum)
      [] authority \in {S_GBR, S_FRA, S_RUS} -> LettersThenDigits(s, 0, 9)
      [] authority \in {S_CAN, S_BRA} -> LettersThenDigits(s, 2, 6)
      [] authority \in {S_AUS, S_NZL, S_IND} -> LettersThenDigits(s, 1, 7)
      [] authority = S_DEU -> Len(s) = 10 /\ AllIn(s, UpperAlnum)
      [] authority = S_ESP -> LettersThenDigits(s, 3, 6)
      [] authority \in {S_ITA, S_JPN} -> LettersThenDigits(s, 2, 7)
      [] authority = S_CHN -> LettersThenDigits(s, 1, 8) /\ s[1] \in {"E", "G"}
      [] authority = S_ZAF -> LettersThenDigits(s, 1, 8)
      [] OTHER -> genericFormat(s)

\* detectAuthority: the first format, in key order, that the number matches
detectAuthority(s) ==
    IF \E i \in 1..Len(PassportAuthorities) : PassportFormat(PassportAuthorities[i], s)
    THEN Str(PassportAuthorities[
             CHOOSE i \in 1..Len(PassportAuthorities) :
                 /\ PassportFormat(PassportAuthorities[i], s)
                 /\ \A j \in 1..(i - 1) : ~PassportFormat(PassportAuthorities[j], s)])
    ELSE Undef

validateFormat(s, authority) == PassportFormat(authority, s)

\* char.charCodeAt(0) % 10 for the characters of [A-Z0-9]
CharCodeMod10(c) ==
    IF c \in Digits THEN (48 + DigitVal(c)) % 10
    ELSE (64 + (CHOOSE i \in 1..26 : UpperSeq[i] = c)) % 10

RECURSIVE SumOver(_, _)
SumOver(s, byCode) ==
    IF Len(s) = 0 THEN 0
    ELSE (IF byCode THEN CharCodeMod10(Head(s)) ELSE DigitVal(Head(s))) + SumOver(Tail(s), byCode)

checkAlphanumericSum(chars) == SumOver(chars, TRUE) % 10 = 0
checkDigitSum(chars) == SumOver(chars, FALSE) % 10 = 0

\* validateChecksum: Some(boolean) where supported, None (undefined) elsewhere;
\* chars is Array.from(passportNumber)
validateChecksum(chars, authority) ==
    IF authority = Str(S_USA) THEN Some(checkAlphanumericSum(chars))
    ELSE IF authority = Str(S_GBR) THEN Some(checkDigitSum(chars))
    ELSE None

PassportDefaults ==
    [allowedAuthorities |-> PassportAuthorities, normalize |-> TRUE,
     validateExpiration |-> FALSE, minimumValidityDays |-> 180, validateChecksums |-> FALSE,
     maxPassportAge |-> 10, allowUnknownAuthorities |-> TRUE]

\* Math.ceil((expirationDate - today) / one day) for an expiration date at midnight
DaysToExpiration(expirationDate, today) == DayNumber(expirationDate) - DayNumber(today)

\* (today - issueDate) / 365 days > maxPassportAge for an issue date at midnight
PassportTooOld(issueDate, today, maxPassportAge) ==
    IF today.tod = 0 THEN DayNumber(today) - DayNumber(issueDate) > 365 * maxPassportAge
    ELSE DayNumber(today) - DayNumber(issueDate) >= 365 * maxPassportAge

\* the checks after the number, the expiration date and the authority are read
PassportChecks(o, value, passportNumber, expirationDate, issuingAuthority, t) ==
    LET normalizedNumber == IF o.normalize THEN ToUpperCase(Trim(ToStr(passportNumber)))
                            ELSE ToStr(passportNumber)
        chars == IF IsString(passportNumber) THEN normalizedNumber ELSE <<>>
        authority == IF Truthy(issuingAuthority) THEN issuingAuthority
                     ELSE detectAuthority(normalizedNumber)
        checkExpiration == o.validateExpiration /\ Truthy(expirationDate)
        days == DaysToExpiration(expirationDate.d, Today(t))
        issueDate == Field(value, "issueDate")
        success == SuccessWith(passportNumber,
                       [normalizedValue |-> normalizedNumber, authority |-> authority,
                        hasValidExpiration |-> IF checkExpiration THEN Some(TRUE) ELSE None,
                        daysToExpiration |-> IF checkExpiration THEN Some(days) ELSE None,
                        checksumValid |-> IF o.validateChecksums
                                          THEN validateChecksum(chars, authority) ELSE None])
    IN  IF o.normalize /\ ~HasStringMethods(passportNumber) THEN Throw
        ELSE IF Truthy(authority) /\ ~InList(authority.s, o.allowedAuthorities)
            THEN createError("PASSPORT_AUTHORITY_NOT_ALLOWED")
        ELSE IF Truthy(authority) /\ ~validateFormat(normalizedNumber, authority.s)
            THEN createError("INVALID_PASSPORT_FORMAT")
        ELSE IF Truthy(authority) /\ o.validateChecksums
                /\ validateChecksum(chars, authority) = Some(FALSE)
            THEN createError("INVALID_PASSPORT_CHECKSUM")
        ELSE IF Falsy(authority) /\ ~o.allowUnknownAuthorities
            THEN createError("UNKNOWN_PASSPORT_AUTHORITY")
        ELSE IF Falsy(authority) /\ ~genericFormat(normalizedNumber)
            THEN createError("INVALID_PASSPORT_FORMAT")
        ELSE IF ~checkExpiration THEN success
        ELSE IF ~expirationDate.d.valid THEN createError("INVALID_EXPIRATION_DATE")
        ELSE IF ~(days >= o.minimumValidityDays)
            THEN createError("INSUFFICIENT_PASSPORT_VALIDITY")
        ELSE IF /\ o.maxPassportAge # 0 /\ Truthy(issueDate) /\ issueDate.d.valid
                /\ PassportTooOld(issueDate.d, Today(t), o.maxPassportAge)
            THEN createError("PASSPORT_TOO_OLD")
        ELSE success

PassportValidate(o, value, t) ==
    IF IsNullish(value) \/ value = Str(<<>>) THEN createError("PASSPORT_REQUIRED")
    ELSE IF value.t \in {"object", "date"} THEN
        IF Falsy(Field(value, "number")) THEN createError("PASSPORT_NUMBER_REQUIRED")
        ELSE PassportChecks(o, value, Field(value, "number"), Field(value, "expirationDate"),
                            Field(value, "authority"), t)
    ELSE PassportChecks(o, value, Str(ToStr(value)), Undef, Undef, t)

PassportOptionSet ==
    { PassportDefaults,
      [PassportDefaults EXCEPT !.normalize = FALSE],
      [PassportDefaults EXCEPT !.validateChecksums = TRUE, !.allowUnknownAuthorities = FALSE],
      [PassportDefaults EXCEPT !.validateExpiration = TRUE],
      [PassportDefaults EXCEPT !.validateExpiration = TRUE, !.minimumValidityDays = 30,
                               !.maxPassportAge = 5],
      [PassportDefaults EXCEPT !.allowedAuthorities = <<S_GBR, S_CAN, S_XYZ>>] }

Passport(number, expirationDate, authority, issueDate) ==
    Obj([number |-> number, expirationDate |-> expirationDate, authority |-> authority,
         issueDate |-> issueDate])

PassportInputs ==
    { Null, Undef, Str(<<>>), Num(0), Num(123456789), Bool(FALSE), InvalidDate,
      Str(S_p_usa), Str(S_p_usa_sum), Str(S_p_can), Str(S_p_aus), Str(S_p_generic),
      Str(S_p_short),
      Passport(Undef, Undef, Undef, Undef),
      Passport(Num(123456789), Undef, Undef, Undef),
      Passport(Str(S_p_usa), Undef, Str(S_GBR), Undef),
      Passport(Str(S_p_can), Undef, Str(S_XYZ), Undef),
      Passport(Str(S_p_usa), InvalidDate, Undef, Undef),
      Passport(Str(S_p_usa), Date(2026, 3, 30), Undef, Undef),
      Passport(Str(S_p_usa), Date(2026, 8, 27), Undef, Date(2016, 3, 2)),
      Passport(Str(S_p_usa), Date(2030, 1, 1), Undef, Date(2021, 3, 1)),
      Passport(Str(S_p_usa), Date(2030, 1, 1), Undef, Date(2023, 1, 1)),
      Passport(Str(S_p_usa), Date(2030, 1, 1), Undef, InvalidDate) }


(***************************************************************************)
(* CreditCardValidator (unnamed/part_007, second class)                     *)
(***************************************************************************)
S_visa == <<"4","1","1","1","1","1","1","1","1","1","1","1","1","1","1","1">>
S_visa_bad == <<"4","1","1","1","1","1","1","1","1","1","1","1","1","1","1","2">>
S_visa13 == <<"4","2","2","2","2","2","2","2","2","2","2","2","2">>
S_visa_spaced == <<"4","1","1","1"," ","1","1","1","1"," ","1","1","1","1"," ","1","1","1","1">>
S_visa_dashed == <<"4","1","1","1","-","1","1","1","1","-","1","1","1","1","-","1","1","1","2">>
S_mastercard == <<"5","5","5","5","5","5","5","5","5","5","5","5","4","4","4","4">>
S_mastercard2 == <<"2","2","2","1","0","0","0","0","0","0","0","0","0","0","0","9">>
S_amex == <<"3","7","8","2","8","2","2","4","6","3","1","0","0","0","5">>
S_amex_bad == <<"3","7","8","2","8","2","2","4","6","3","1","0","0","0","6">>
S_discover == <<"6","0","1","1","1","1","1","1","1","1","1","1","1","1","1","7">>
S_diners == <<"3","0","5","6","9","3","0","9","0","2","5","9","0","4">>
S_jcb == <<"3","5","3","0","1","1","1","3","3","3","3","0","0","0","0","0">>
S_unknown_number == <<"1","2","3","4","5","6","7","8","9","0","1","2","3","4","5","6">>
S_dash == <<"-">>
S_space == <<" ">>
S_02_26 == <<"0","2","/","2","6">>
S_03_26 == <<"0","3","/","2","6">>
S_01_26 == <<"0","1","/","2","6">>
S_13_26 == <<"1","3","/","2","6">>
S_12_2030 == <<"1","2","/","2","0","3","0">>
S_12_30 == <<"1","2","/","3","0">>
S_masked_1111 == <<"*","*","*","*"," ","*","*","*","*"," ","*","*","*","*"," ","1","1","1","1">>
S_123 == <<"1","2","3">>
S_12a == <<"1","2","a">>

\* CardType, in the key order of cardPatterns
CardTypes == <<"visa", "mastercard", "amex", "discover", "diners", "jcb">>

\* the number formed by the first k characters of a digit string
RECURSIVE Prefix(_, _)
Prefix(s, k) == IF k = 0 THEN 0 ELSE 10 * Prefix(s, k - 1) + DigitVal(s[k])

\* cardPatterns[type].test(s)
cardPattern(type, s) ==
    /\ Len(s) > 0
    /\ AllIn(s, Digits)
    /\ CASE type = "visa" -> Len(s) \in {13, 16} /\ s[1] = "4"
         [] type = "mastercard" ->
                Len(s) = 16 /\ (Prefix(s, 2) \in 51..55 \/ Prefix(s, 4) \in 2221..2720)
         [] type = "amex" -> Len(s) = 15 /\ Prefix(s, 2) \in {34, 37}
         [] type = "discover" -> Len(s) = 16 /\ (Prefix(s, 4) = 6011 \/ Prefix(s, 2) = 65)
         [] type = "diners" ->
                Len(s) = 14 /\ (Prefix(s, 3) \in 300..305 \/ Prefix(s, 2) \in {36, 38})
         [] type = "jcb" ->
                \/ Len(s) = 15 /\ Prefix(s, 4) \in {2131, 1800}
                \/ Len(s) = 16 /\ Prefix(s, 2) = 35
         [] OTHER -> FALSE

detectCardType(cardNumber) ==
    IF \E i \in 1..Len(CardTypes) : cardPattern(CardTypes[i], cardNumber)
    THEN CardTypes[CHOOSE i \in 1..Len(CardTypes) :
                       /\ cardPattern(CardTypes[i], cardNumber)
                       /\ \A j \in 1..(i - 1) : ~cardPattern(CardTypes[j], cardNumber)]
    ELSE "unknown"

\* a faulty checksum loop that doubles but never subtracts 9
RECURSIVE LuhnLoopWithoutFold(_, _, _, _)
LuhnLoopWithoutFold(s, i, alternate, sum) ==
    IF i = 0 THEN sum
    ELSE LuhnLoopWithoutFold(s, i - 1, ~alternate,
                             sum + (IF alternate THEN 2 * DigitVal(s[i]) ELSE DigitVal(s[i])))

\* the loop of validateLuhnChecksum: from index i down to 1, doubling when alternate
RECURSIVE LuhnLoop(_, _, _, _)
LuhnLoop(s, i, alternate, sum) ==
    IF i = 0 THEN sum
    ELSE LET digit == DigitVal(s[i])
             doubled == IF 2 * digit > 9 THEN 2 * digit - 9 ELSE 2 * digit
         IN  LuhnLoop(s, i - 1, ~alternate, sum + (IF alternate THEN doubled ELSE digit))

\* a faulty checksum that starts doubling at the rightmost digit
validateLuhnChecksumFromCheckDigit(cardNumber) ==
    /\ Len(cardNumber) > 0
    /\ AllIn(cardNumber, Digits)
    /\ LuhnLoop(cardNumber, Len(cardNumber), TRUE, 0) % 10 = 0

validateLuhnChecksum(cardNumber) ==
    /\ Len(cardNumber) > 0
    /\ AllIn(cardNumber, Digits)
    /\ LuhnLoop(cardNumber, Len(cardNumber), FALSE, 0) % 10 = 0

\* expiryPattern: ^(0[1-9]|1[0-2])\/([0-9]{2}|[0-9]{4})$
expiryPattern(s) ==
    /\ Len(s) \in {5, 7}
    /\ s[3] = "/"
    /\ AllIn(SubSeq(s, 1, 2) \o SubSeq(s, 4, Len(s)), Digits)
    /\ TwoDigits(s, 1) \in 1..12

\* new Date(year, month): a year below 100 is taken as 1900 + year
ExpiryYear(s) ==
    IF Len(s) = 5 THEN 2000 + TwoDigits(s, 4)
    ELSE IF FourDigits(s, 4) < 100 THEN 1900 + FourDigits(s, 4)
    ELSE FourDigits(s, 4)

\* validateExpiryDate: new Date(year, month) is the first day of the following month and
\* setDate(0) moves it to the last day of the expiry month, still at midnight
validateExpiryDate(expiry, today) ==
    LET year == ExpiryYear(expiry)
        month == TwoDigits(expiry, 1)
        expiryDate == [valid |-> TRUE, y |-> year, m |-> month,
                       d |-> DaysInMonth(year, month), tod |-> 0]
    IN  DateAtLeast(expiryDate, today)

\* combined.substr(i, 4) + ' ' for i = 0, 4, 8, ...
RECURSIVE GroupsOfFour(_)
GroupsOfFour(s) ==
    IF Len(s) = 0 THEN <<>>
    ELSE IF Len(s) <= 4 THEN s \o <<" ">>
    ELSE SubSeq(s, 1, 4) \o <<" ">> \o GroupsOfFour(SubSeq(s, 5, Len(s)))

\* a faulty mask that groups the number without hiding any digit
maskCardNumberUnmasked(cardNumber) ==
    IF Len(cardNumber) < 4 THEN cardNumber ELSE Trim(GroupsOfFour(cardNumber))

\* maskCardNumber: all but the last 4 characters become '*', then chunks of 4 taken from
\* the left are joined with spaces
maskCardNumber(cardNumber) ==
    IF Len(cardNumber) < 4 THEN cardNumber
    ELSE Trim(GroupsOfFour(Repeat("*", Len(cardNumber) - 4)
                           \o SubSeq(cardNumber, Len(cardNumber) - 3, Len(cardNumber))))

CreditCardDefaults ==
    [numberRequired |-> TRUE, expiryRequired |-> TRUE, cvvRequired |-> TRUE,
     nameRequired |-> FALSE, allowedCardTypes |-> CardTypes, validateLuhn |-> TRUE]

CardCharsStripped == Spaces \cup {"-"}

\* a faulty CVV length that ignores the card type
cvvLengthIgnoringType(cardType) == 3

\* cvvLengths: 4 for amex, the default 3 for every other type
cvvLength(cardType) == IF cardType = "amex" THEN 4 ELSE 3

CreditCardValidate(o, card, t) ==
    IF Falsy(card) THEN createError("CREDIT_CARD_REQUIRED")
    ELSE
    LET number == Field(card, "number")
        expiry == Field(card, "expiry")
        cvv == Field(card, "cvv")
        name == Field(card, "name")
        processedNumber == IF IsString(number) THEN Strip(number.s, CardCharsStripped) ELSE <<>>
        hasNumber == Len(processedNumber) > 0
        cardType == IF hasNumber THEN detectCardType(processedNumber) ELSE "unknown"
        requiredCvvLength == cvvLength(cardType)
    IN  IF o.numberRequired /\ Falsy(number) THEN createError("CARD_NUMBER_REQUIRED")
        ELSE IF ~IsNullish(number) /\ ~HasStringMethods(number) THEN Throw
        ELSE IF hasNumber /\ cardType # "unknown" /\ ~InList(cardType, o.allowedCardTypes)
            THEN createError("CARD_TYPE_NOT_ALLOWED")
        ELSE IF hasNumber /\ cardType = "unknown"
            THEN createError("INVALID_CARD_NUMBER_FORMAT")
        ELSE IF hasNumber /\ o.validateLuhn /\ ~validateLuhnChecksum(processedNumber)
            THEN createError("INVALID_CARD_NUMBER_CHECKSUM")
        ELSE IF o.expiryRequired /\ Falsy(expiry) THEN createError("EXPIRY_REQUIRED")
        ELSE IF Truthy(expiry) /\ ~expiryPattern(ToStr(expiry))
            THEN createError("INVALID_EXPIRY_FORMAT")
        ELSE IF Truthy(expiry) /\ ~HasStringMethods(expiry) THEN Throw
        ELSE IF Truthy(expiry) /\ ~validateExpiryDate(expiry.s, Today(t))
            THEN createError("EXPIRED_CARD")
        ELSE IF o.cvvRequired /\ Falsy(cvv) THEN createError("CVV_REQUIRED")
        ELSE IF Truthy(cvv) /\ ~(/\ Len(ToStr(cvv)) > 0 /\ AllIn(ToStr(cvv), Digits)
                                 /\ IsString(cvv) /\ Len(cvv.s) = requiredCvvLength)
            THEN createError("INVALID_CVV")
        ELSE IF o.nameRequired /\ Falsy(name) THEN createError("CARDHOLDER_NAME_REQUIRED")
        ELSE IF OptTrimThrows(expiry) \/ OptTrimThrows(cvv) \/ OptTrimThrows(name) THEN Throw
        ELSE createSuccess(Obj([number |-> Str(maskCardNumber(processedNumber)),
                                expiry |-> OptTrim(expiry), cvv |-> OptTrim(cvv),
                                name |-> OptTrim(name), cardType |-> cardType]))

CreditCardOptionSet ==
    { CreditCardDefaults,
      [CreditCardDefaults EXCEPT !.validateLuhn = FALSE],
      [CreditCardDefaults EXCEPT !.nameRequired = TRUE],
      [CreditCardDefaults EXCEPT !.numberRequired = FALSE, !.expiryRequired = FALSE,
                                 !.cvvRequired = FALSE],
      [CreditCardDefaults EXCEPT !.allowedCardTypes = <<"visa", "mastercard">>] }

Card(number, expiry, cvv, name) ==
    Obj([number |-> number, expiry |-> expiry, cvv |-> cvv, name |-> name])

CardNumbers ==
    { Undef, Str(<<>>), Str(S_dash), Str(S_space), Num(4111), Str(S_visa), Str(S_visa_bad),
      Str(S_visa13), Str(S_visa_spaced), Str(S_visa_dashed), Str(S_mastercard),
      Str(S_mastercard2), Str(S_amex), Str(S_amex_bad), Str(S_discover), Str(S_diners),
      Str(S_jcb), Str(S_unknown_number) }
CardExpiries == { Undef, Str(S_13_26), Str(S_01_26), Str(S_02_26), Str(S_03_26), Str(S_12_2030) }
CardCvvs == { Undef, Str(S_123), Str(S_1234), Str(S_12a), Num(123) }
CardNames == { Undef, Str(S_Ann_Lee), Num(5) }

CreditCardInputs ==
    { Null, Undef, Str(S_visa) }
    \cup { Card(n, Str(S_12_2030), Str(S_123), Undef) : n \in CardNumbers }
    \cup { Card(n, Undef, Undef, Undef) :
               n \in { Str(S_visa), Str(S_visa_bad), Str(S_unknown_number), Str(S_dash) } }
    \cup { Card(Str(S_visa), e, c, Undef) : e \in CardExpiries, c \in CardCvvs }
    \cup { Card(Str(S_amex), Str(S_12_2030), c, m) :
               c \in { Str(S_123), Str(S_1234) }, m \in CardNames }
    \cup { Card(Str(S_visa_bad), Str(S_13_26), Str(S_12a), Undef),
           Card(Str(S_discover), Str(S_01_26), Undef, Undef),
           Card(Str(S_dash), Undef, Str(S_123), Undef),
           Card(Str(S_space), Str(S_12_2030), Undef, Undef),
           Card(Str(S_visa), Str(S_12_30), Str(S_123), Undef) }

(***************************************************************************)
(* BankAccountValidator (financial/index.ts)                                *)
(***************************************************************************)
S_checking == <<"c","h","e","c","k","i","n","g">>
S_Checking == <<"C","h","e","c","k","i","n","g">>
S_savings == <<"s","a","v","i","n","g","s">>
S_business == <<"b","u","s","i","n","e","s","s">>
S_crypto == <<"c","r","y","p","t","o">>
S_acct == <<"1","2","3","4","5","6","7","8">>
S_acct_dashed == <<"1","2","-","3","4","5","-","6","7","8">>
S_acct_long == Repeat("1", 18)
S_routing == <<"0","2","1","0","0","0","0","2","1">>
S_routing2 == <<"0","1","1","0","0","0","0","1","5">>
S_routing_bad == <<"0","2","1","0","0","0","0","2","2">>
S_routing8 == <<"0","2","1","0","0","0","0","2">>
S_routing_alpha == <<"0","2","1","0","0","0","0","2","A">>
S_routing3 == <<"1","1","1","0","0","0","0","2","5">>
S_routing_seq == <<"1","2","3","4","5","6","7","8","9">>
S_routing_zero == Repeat("0", 9)
S_J_Doe == <<"J"," ","D","o","e">>
S_bank == <<"A","c","m","e">>

\* faulty weights that count every digit once
weightsAllOne == <<1, 1, 1, 1, 1, 1, 1, 1, 1>>

weights == <<3, 7, 1, 3, 7, 1, 3, 7, 1>>

RECURSIVE WeightedSum(_, _)
WeightedSum(s, i) == IF i = 0 THEN 0 ELSE DigitVal(s[i]) * weights[i] + WeightedSum(s, i - 1)

\* validateRoutingChecksum: a non-string has no length 9; parseInt of a character that is
\* no digit is NaN and so is the sum
validateRoutingChecksum(routingNumber) ==
    /\ IsString(routingNumber)
    /\ Len(routingNumber.s) = 9
    /\ AllIn(routingNumber.s, Digits)
    /\ WeightedSum(routingNumber.s, 9) % 10 = 0

BankAccountDefaults ==
    [accountNumberRequired |-> TRUE, routingNumberRequired |-> TRUE,
     accountNameRequired |-> TRUE, bankNameRequired |-> FALSE, accountTypeRequired |-> FALSE,
     allowedAccountTypes |-> <<S_checking, S_savings, S_business>>,
     minAccountNumberLength |-> 5, maxAccountNumberLength |-> 17,
     routingNumberPattern |-> Pattern(Digits, 9, 9, FALSE), validateRoutingChecksum |-> TRUE]

\* the rules after the routing number: names, account type, and the trimmed result
BankAccountRest(o, accountNumber, routingNumber, accountName, bankName, accountType) ==
    IF o.accountNameRequired /\ Falsy(accountName) THEN createError("ACCOUNT_NAME_REQUIRED")
    ELSE IF o.bankNameRequired /\ Falsy(bankName) THEN createError("BANK_NAME_REQUIRED")
    ELSE IF o.accountTypeRequired /\ Falsy(accountType)
        THEN createError("ACCOUNT_TYPE_REQUIRED")
    ELSE IF /\ Truthy(accountType) /\ Len(o.allowedAccountTypes) > 0
            /\ ~HasStringMethods(accountType)
        THEN Throw
    ELSE IF /\ Truthy(accountType) /\ Len(o.allowedAccountTypes) > 0
            /\ ~InList(ToLowerCase(accountType.s), o.allowedAccountTypes)
        THEN createError("ACCOUNT_TYPE_NOT_ALLOWED")
    ELSE IF \/ OptTrimThrows(accountNumber) \/ OptTrimThrows(routingNumber)
            \/ OptTrimThrows(accountName) \/ OptTrimThrows(bankName)
            \/ OptTrimThrows(accountType)
        THEN Throw
    ELSE createSuccess(Obj([accountNumber |-> OptTrim(accountNumber),
                            routingNumber |-> OptTrim(routingNumber),
                            accountName |-> OptTrim(accountName),
                            bankName |-> OptTrim(bankName),
                            accountType |-> IF IsString(accountType)
                                            THEN Str(Trim(ToLowerCase(accountType.s)))
                                            ELSE Undef]))

\* <<result, cursor of routingNumberPattern after the call>>
BankAccountValidate(o, bankAccount, li) ==
    IF Falsy(bankAccount) THEN <<createError("BANK_ACCOUNT_REQUIRED"), li>>
    ELSE
    LET accountNumber == Field(bankAccount, "accountNumber")
        routingNumber == Field(bankAccount, "routingNumber")
        digitsOnly == DigitsOnly(accountNumber.s)
        tested == RegExpTest(o.routingNumberPattern, ToStr(routingNumber), li)
        rest == BankAccountRest(o, accountNumber, routingNumber,
                                Field(bankAccount, "accountName"),
                                Field(bankAccount, "bankName"),
                                Field(bankAccount, "accountType"))
    IN  IF o.accountNumberRequired /\ Falsy(accountNumber)
            THEN <<createError("ACCOUNT_NUMBER_REQUIRED"), li>>
        ELSE IF Truthy(accountNumber) /\ ~HasStringMethods(accountNumber) THEN <<Throw, li>>
        ELSE IF Truthy(accountNumber) /\ Len(digitsOnly) < o.minAccountNumberLength
            THEN <<createError("ACCOUNT_NUMBER_TOO_SHORT"), li>>
        ELSE IF Truthy(accountNumber) /\ Len(digitsOnly) > o.maxAccountNumberLength
            THEN <<createError("ACCOUNT_NUMBER_TOO_LONG"), li>>
        ELSE IF o.routingNumberRequired /\ Falsy(routingNumber)
            THEN <<createError("ROUTING_NUMBER_REQUIRED"), li>>
        ELSE IF Falsy(routingNumber) THEN <<rest, li>>
        ELSE IF ~tested[1] THEN <<createError("INVALID_ROUTING_NUMBER_FORMAT"), tested[2]>>
        ELSE IF o.validateRoutingChecksum /\ ~validateRoutingChecksum(routingNumber)
            THEN <<createError("INVALID_ROUTING_NUMBER_CHECKSUM"), tested[2]>>
        ELSE <<rest, tested[2]>>

BankAccountOptionSet ==
    { BankAccountDefaults,
      [BankAccountDefaults EXCEPT !.validateRoutingChecksum = FALSE],
      [BankAccountDefaults EXCEPT !.routingNumberPattern = Pattern(Digits, 9, 9, TRUE)],
      [BankAccountDefaults EXCEPT !.routingNumberPattern = Pattern(UpperAlnum, 9, 9, FALSE)],
      [BankAccountDefaults EXCEPT !.accountNumberRequired = FALSE,
                                  !.routingNumberRequired = FALSE,
                                  !.accountNameRequired = FALSE,
                                  !.allowedAccountTypes = <<>>],
      [BankAccountDefaults EXCEPT !.bankNameRequired = TRUE, !.accountTypeRequired = TRUE] }

BankAccount(accountNumber, routingNumber, accountName, bankName, accountType) ==
    Obj([accountNumber |-> accountNumber, routingNumber |-> routingNumber,
         accountName |-> accountName, bankName |-> bankName, accountType |-> accountType])

BankAccountInputs ==
    { Null, Undef, Str(S_acct) }
    \cup { BankAccount(a, Str(S_routing), Str(S_Ann_Lee), Undef, Undef) :
               a \in { Undef, Str(<<>>), Str(S_1234), Str(S_acct), Str(S_acct_dashed),
                       Str(S_acct_long), Num(12345678) } }
    \cup { BankAccount(Str(S_acct), r, Str(S_Ann_Lee), Undef, Undef) :
               r \in { Undef, Str(S_routing2), Str(S_routing_bad), Str(S_routing8),
                       Str(S_routing_alpha), Num(123456780) } }
    \cup { BankAccount(Str(S_acct), Str(S_routing), n, b, ty) :
               n \in { Undef, Str(S_Ann_Lee) }, b \in { Undef, Str(S_bank) },
               ty \in { Undef, Str(S_Checking), Str(S_crypto), Num(1) } }
    \cup { BankAccount(Str(S_acct), Str(S_routing), Num(5), Undef, Undef),
           BankAccount(Str(S_1234), Str(S_routing_bad), Undef, Undef, Undef),
           BankAccount(Undef, Undef, Undef, Undef, Undef) }
    \cup { BankAccount(Str(S_acct), Str(r), Str(S_J_Doe), Undef, Undef) :
               r \in { S_routing, S_routing_bad, S_routing3, S_routing_seq, S_routing_zero } }

(***************************************************************************)
(* URLValidator (unnamed/part_007, first class).  A string argument is      *)
(* given with what new URL(value) makes of it: whether it parses, and the   *)
(* URL object's protocol, hostname, port, pathname, query, hash and         *)
(* credentials.                                                             *)
(***************************************************************************)
S_sub_example_com == <<"s","u","b",".">> \o S_example_com
S_notexample_com == <<"n","o","t">> \o S_example_com
S_ip4 == <<"1","9","2",".","1","6","8",".","1",".","1">>
S_ip4_big == <<"9","9","9",".","1",".","1",".","1">>
S_dot_com == <<".","c","o","m">>
S_root_path == <<"/">>
S_path_a == <<"/","a">>
S_path_abc == <<"/","a","/","b","/","c">>
S_path_A1 == <<"/","A","1">>
S_8080 == <<"8","0","8","0">>
S_22 == <<"2","2">>

\* the overrides given to the constructor: None when the key is not given
URLNoOptions ==
    [requireProtocol |-> None, allowedProtocols |-> None, allowedDomains |-> None,
     allowedTLDs |-> None, allowSubdomains |-> None, allowIPAddresses |-> None,
     requireSpecificPort |-> None, allowedPorts |-> None, disallowPorts |-> None,
     requirePath |-> None, pathPattern |-> None, maxPathSegments |-> None,
     allowQuery |-> None, requiredQueryParams |-> None, allowedQueryParams |-> None,
     allowFragment |-> None, allowAuth |-> None, maxLength |-> None, errorMessage |-> None]

\* options.x !== false ; options.x || false ; options.x || fallback (a number or a string)
NotFalse(x) == x # Some(FALSE)
OrFalse(x) == x = Some(TRUE)
OrNumber(x, fallback) == IF x = None \/ x = Some(0) THEN fallback ELSE x[1]
OrString(x, fallback) == IF x = None \/ x = Some("") THEN fallback ELSE x[1]

\* the constructor's merge; null is None
URLOptions(options) ==
    [requireProtocol |-> NotFalse(options.requireProtocol),
     allowedProtocols |-> IF options.allowedProtocols = None THEN Some(<<"http:", "https:">>)
                          ELSE options.allowedProtocols,
     allowedDomains |-> options.allowedDomains,
     allowedTLDs |-> options.allowedTLDs,
     allowSubdomains |-> NotFalse(options.allowSubdomains),
     allowIPAddresses |-> OrFalse(options.allowIPAddresses),
     requireSpecificPort |-> OrFalse(options.requireSpecificPort),
     allowedPorts |-> options.allowedPorts,
     disallowPorts |-> options.disallowPorts,
     requirePath |-> OrFalse(options.requirePath),
     pathPattern |-> options.pathPattern,
     maxPathSegments |-> IF options.maxPathSegments \in {None, Some(0)} THEN None
                         ELSE options.maxPathSegments,
     allowQuery |-> NotFalse(options.allowQuery),
     requiredQueryParams |-> options.requiredQueryParams,
     allowedQueryParams |-> options.allowedQueryParams,
     allowFragment |-> NotFalse(options.allowFragment),
     allowAuth |-> OrFalse(options.allowAuth),
     maxLength |-> OrNumber(options.maxLength, 2083),
     errorMessage |-> OrString(options.errorMessage, "Invalid URL")]

\* s.split(sep) for a one-character separator
RECURSIVE Split(_, _)
Split(s, sep) ==
    IF IndexOf(s, sep) = 0 THEN <<s>>
    ELSE <<SubSeq(s, 1, IndexOf(s, sep) - 1)>> \o Split(SubSeq(s, IndexOf(s, sep) + 1, Len(s)), sep)

HexChars == Digits \cup {"a","b","c","d","e","f","A","B","C","D","E","F"}

_isIPAddress(hostname) ==
    LET parts == Split(hostname, ".")
    IN  \/ /\ Len(parts) = 4
           /\ \A i \in 1..4 : Len(parts[i]) \in 1..3 /\ AllIn(parts[i], Digits)
           /\ \A i \in 1..4 : Prefix(parts[i], Len(parts[i])) <= 255
        \/ /\ Len(hostname) >= 3
           /\ hostname[1] = "[" /\ hostname[Len(hostname)] = "]"
           /\ AllIn(SubSeq(hostname, 2, Len(hostname) - 1), HexChars \cup {":"})

\* each check gives "" when it passes, else the message it stores in lastError
_validateProtocol(o, url) ==
    IF o.requireProtocol /\ url.protocol = "" THEN "URL must include a protocol"
    ELSE IF /\ url.protocol # "" /\ o.allowedProtocols # None
            /\ ~InList(url.protocol, o.allowedProtocols[1])
        THEN "URL protocol must be one of: <allowedProtocols>"
    ELSE ""

_validateDomain(o, url) ==
    LET hostname == url.hostname
        isIPAddress == _isIPAddress(hostname)
    IN  IF isIPAddress /\ ~o.allowIPAddresses THEN "IP addresses are not allowed in URLs"
        ELSE IF /\ ~isIPAddress /\ o.allowedDomains # None
                /\ ~\E i \in 1..Len(o.allowedDomains[1]) :
                       \/ hostname = o.allowedDomains[1][i]
                       \/ /\ o.allowSubdomains
                          /\ EndsWith(hostname, <<".">> \o o.allowedDomains[1][i])
            THEN IF o.allowSubdomains
                 THEN "URL domain must be one of: <allowedDomains> or their subdomains"
                 ELSE "URL domain must be one of: <allowedDomains>"
        ELSE IF /\ ~isIPAddress /\ o.allowedTLDs # None
                /\ ~\E i \in 1..Len(o.allowedTLDs[1]) : EndsWith(hostname, o.allowedTLDs[1][i])
            THEN "URL must end with one of these TLDs: <allowedTLDs>"
        ELSE ""

_validatePort(o, url) ==
    LET port == url.port
        portNumber == Prefix(port, Len(port))
    IN  IF o.requireSpecificPort /\ Len(port) = 0 THEN "URL must specify a port"
        ELSE IF Len(port) > 0 /\ o.allowedPorts # None /\ ~InList(portNumber, o.allowedPorts[1])
            THEN "URL port must be one of: <allowedPorts>"
        ELSE IF Len(port) > 0 /\ o.disallowPorts # None /\ InList(portNumber, o.disallowPorts[1])
            THEN "URL port cannot be one of: <disallowPorts>"
        ELSE ""

\* path.split('/').filter(segment => segment.length > 0).length
SegmentCount(path) == Len(SelectSeq(Split(path, "/"), LAMBDA seg : Len(seg) > 0))

\* <<message, cursor of pathPattern after the check>>
_validatePath(o, url, li) ==
    LET path == url.pathname
        tested == RegExpTest(o.pathPattern[1], path, li)
    IN  IF o.requirePath /\ (path = S_root_path \/ Len(path) = 0)
            THEN <<"URL must include a path", li>>
        ELSE IF o.pathPattern # None /\ path # S_root_path /\ ~tested[1]
            THEN <<"URL path does not match the required pattern", tested[2]>>
        ELSE <<IF o.maxPathSegments # None /\ SegmentCount(path) > o.maxPathSegments[1]
               THEN "URL path exceeds maximum of <maxPathSegments> segments"
               ELSE "",
               IF o.pathPattern # None /\ path # S_root_path THEN tested[2] ELSE li>>

_validateQuery(o, url) ==
    IF ~o.allowQuery /\ url.hasQuery THEN "Query parameters are not allowed in the URL"
    ELSE IF /\ url.hasQuery /\ o.requiredQueryParams # None
            /\ \E i \in 1..Len(o.requiredQueryParams[1]) :
                   ~InList(o.requiredQueryParams[1][i], url.params)
        THEN "URL must include the required query parameter: <requiredParam>"
    ELSE IF /\ url.hasQuery /\ o.allowedQueryParams # None
            /\ \E i \in 1..Len(url.params) : ~InList(url.params[i], o.allowedQueryParams[1])
        THEN "Query parameter '<param>' is not allowed. Allowed parameters are: <allowedQueryParams>"
    ELSE ""

_validateFragment(o, url) ==
    IF ~o.allowFragment /\ url.hasFragment THEN "Fragments (hash) are not allowed in the URL"
    ELSE ""

_validateAuth(o, url) ==
    IF ~o.allowAuth /\ url.hasAuth THEN "Authentication credentials are not allowed in the URL"
    ELSE ""

\* validate: [ok, error, li] - the boolean returned, the message stored in lastError when
\* it is false, and the cursor of pathPattern after the call
URLOutcome(ok, error, li) == [ok |-> ok, error |-> error, li |-> li]

URLChecks(o, url, li) ==
    LET pathChecked == _validatePath(o, url, li)
    IN  IF _validateProtocol(o, url) # "" THEN URLOutcome(FALSE, _validateProtocol(o, url), li)
        ELSE IF _validateDomain(o, url) # "" THEN URLOutcome(FALSE, _validateDomain(o, url), li)
        ELSE IF _validatePort(o, url) # "" THEN URLOutcome(FALSE, _validatePort(o, url), li)
        ELSE IF pathChecked[1] # "" THEN URLOutcome(FALSE, pathChecked[1], pathChecked[2])
        ELSE IF _validateQuery(o, url) # ""
            THEN URLOutcome(FALSE, _validateQuery(o, url), pathChecked[2])
        ELSE IF _validateFragment(o, url) # ""
            THEN URLOutcome(FALSE, _validateFragment(o, url), pathChecked[2])
        ELSE IF _validateAuth(o, url) # ""
            THEN URLOutcome(FALSE, _validateAuth(o, url), pathChecked[2])
        ELSE URLOutcome(TRUE, "", pathChecked[2])

URLValidate(o, value, li) ==
    IF ~IsString(value) THEN URLOutcome(FALSE, "URL must be a string", li)
    ELSE IF value.length > o.maxLength
        THEN URLOutcome(FALSE, "URL exceeds maximum length of <maxLength> characters", li)
    ELSE IF ~value.parses THEN
        IF o.requireProtocol /\ ~value.hasSeparator
        THEN URLOutcome(FALSE, "URL must include a protocol (e.g., http://, https://)", li)
        ELSE URLOutcome(FALSE, "Invalid URL format", li)
    ELSE URLChecks(o, value.url, li)


\* the option objects handed to the constructor
URLGivenSet ==
    { URLNoOptions,
      [URLNoOptions EXCEPT !.allowedDomains = Some(<<S_example_com>>),
                           !.allowSubdomains = Some(FALSE)],
      [URLNoOptions EXCEPT !.allowedDomains = Some(<<S_example_com>>),
                           !.allowedTLDs = Some(<<S_dot_com>>),
                           !.allowIPAddresses = Some(TRUE)],
      [URLNoOptions EXCEPT !.pathPattern = Some(Pattern(Lowers \cup {"/"}, 1, Unbounded, TRUE)),
                           !.requirePath = Some(TRUE)],
      [URLNoOptions EXCEPT !.pathPattern = Some(Pattern(Lowers \cup {"/"}, 1, Unbounded, FALSE)),
                           !.maxPathSegments = Some(2)],
      [URLNoOptions EXCEPT !.requiredQueryParams = Some(<<"id">>),
                           !.allowedQueryParams = Some(<<"id", "q">>)],
      [URLNoOptions EXCEPT !.allowQuery = Some(FALSE),
                           !.allowFragment = Some(FALSE)],
      [URLNoOptions EXCEPT !.allowAuth = Some(TRUE),
                           !.requireSpecificPort = Some(TRUE),
                           !.allowedPorts = Some(<<8080, 22>>),
                           !.disallowPorts = Some(<<22>>)],
      [URLNoOptions EXCEPT !.requireProtocol = Some(FALSE),
                           !.allowedProtocols = Some(<<"ftp:">>)],
      [URLNoOptions EXCEPT !.maxLength = Some(0), !.maxPathSegments = Some(0),
                           !.errorMessage = Some("")],
      [URLNoOptions EXCEPT !.maxLength = Some(20),
                           !.errorMessage = Some("Bad URL")] }

URLOptionSet == { URLOptions(options) : options \in URLGivenSet }

\* a string of the given length and what new URL makes of it
ParsedURL(length, protocol, hostname, port, pathname, params, hasFragment, hasAuth) ==
    [t |-> "string", length |-> length, parses |-> TRUE, hasSeparator |-> TRUE,
     url |-> [protocol |-> protocol, hostname |-> hostname, port |-> port,
              pathname |-> pathname, hasQuery |-> Len(params) > 0, params |-> params,
              hasFragment |-> hasFragment, hasAuth |-> hasAuth]]

\* a string new URL rejects
NotAURL(length, hasSeparator) ==
    [t |-> "string", length |-> length, parses |-> FALSE, hasSeparator |-> hasSeparator]

URLInputs ==
    { Null, Undef, Num(5),
      NotAURL(0, FALSE), NotAURL(11, FALSE), NotAURL(7, TRUE), NotAURL(3000, TRUE),
      ParsedURL(18, "http:", S_example_com, <<>>, S_root_path, <<>>, FALSE, FALSE),
      ParsedURL(19, "https:", S_example_com, <<>>, S_root_path, <<>>, FALSE, FALSE),
      ParsedURL(17, "ftp:", S_example_com, <<>>, S_root_path, <<>>, FALSE, FALSE),
      ParsedURL(23, "https:", S_sub_example_com, <<>>, S_root_path, <<>>, FALSE, FALSE),
      ParsedURL(22, "https:", S_notexample_com, <<>>, S_root_path, <<>>, FALSE, FALSE),
      ParsedURL(16, "https:", S_evil_org, <<>>, S_root_path, <<>>, FALSE, FALSE),
      ParsedURL(19, "https:", S_ip4, <<>>, S_root_path, <<>>, FALSE, FALSE),
      ParsedURL(24, "https:", S_example_com, S_8080, S_root_path, <<>>, FALSE, FALSE),
      ParsedURL(22, "https:", S_example_com, S_22, S_root_path, <<>>, FALSE, FALSE),
      ParsedURL(21, "https:", S_example_com, <<>>, S_path_a, <<>>, FALSE, FALSE),
      ParsedURL(25, "https:", S_example_com, <<>>, S_path_abc, <<>>, FALSE, FALSE),
      ParsedURL(22, "https:", S_example_com, <<>>, S_path_A1, <<>>, FALSE, FALSE),
      ParsedURL(26, "https:", S_example_com, S_8080, S_path_a, <<>>, FALSE, FALSE),
      ParsedURL(24, "https:", S_example_com, <<>>, S_root_path, <<"id">>, FALSE, FALSE),
      ParsedURL(23, "https:", S_example_com, <<>>, S_root_path, <<"q">>, FALSE, FALSE),
      ParsedURL(28, "https:", S_example_com, <<>>, S_root_path, <<"id", "x">>, FALSE, FALSE),
      ParsedURL(23, "https:", S_example_com, <<>>, S_root_path, <<>>, TRUE, FALSE),
      ParsedURL(29, "https:", S_example_com, S_8080, S_root_path, <<>>, FALSE, TRUE) }


(***************************************************************************)
(* The state machine.                                                       *)
(*   inst       the validator instance: its class, its options snapshot and *)
(*              (URLValidator) its lastError field                          *)
(*   lastIndex  the cursor of the RegExp object the options hold            *)
(*   now        the clock, an index into Instants                           *)
(*   op         the operation performed last                                *)
(*   arg, out   the argument and the outcome of the last validate call      *)
(*   repeated   that call had the argument of the call just before it, with *)
(*              nothing in between; prevOut is then the earlier outcome     *)
(*   sess       per caller of a shared URLValidator: what the caller's own  *)
(*              calls alone would have left in lastError (own), and the     *)
(*              message its last getErrorMessage returned (msg)             *)
(***************************************************************************)
Callers == {"A", "B"}

\* the boolean URLValidator.validate returns
BoolResult(b) ==
    [threw |-> FALSE, isValid |-> b, value |-> None, errors |-> None, meta |-> None]

NoResult == Throw

Instance(class, options) ==
    [class |-> class, options |-> options,
     lastError |-> IF class = "URL" THEN options.errorMessage ELSE ""]

IdleSession(i) == [pc |-> "idle", own |-> i.lastError, msg |-> ""]

InitWith(i) ==
    /\ inst = i
    /\ lastIndex = 0
    /\ now = 1
    /\ op = "new"
    /\ arg = Undef
    /\ out = NoResult
    /\ prevOut = NoResult
    /\ repeated = FALSE
    /\ sess = [c \in Callers |-> IdleSession(i)]

Init ==
    \/ \E o \in EmailOptionSet : InitWith(Instance("Email", o))
    \/ \E o \in PhoneOptionSet : InitWith(Instance("Phone", o))
    \/ \E o \in AddressOptionSet : InitWith(Instance("Address", o))
    \/ \E o \in NameOptionSet : InitWith(Instance("Name", o))
    \/ \E o \in UsernameOptionSet : InitWith(Instance("Username", o))
    \/ \E o \in PasswordOptionSet : InitWith(Instance("Password", o))
    \/ \E o \in ApiKeyOptionSet : InitWith(Instance("ApiKey", o))
    \/ \E o \in TokenOptionSet : InitWith(Instance("Token", o))
    \/ \E o \in TwoFactorOptionSet : InitWith(Instance("TwoFactor", o))
    \/ \E o \in AgeOptionSet : InitWith(Instance("Age", o))
    \/ \E o \in DOBOptionSet : InitWith(Instance("DOB", o))
    \/ \E o \in GenderOptionSet : InitWith(Instance("Gender", o))
    \/ \E o \in PassportOptionSet : InitWith(Instance("Passport", o))
    \/ \E o \in CreditCardOptionSet : InitWith(Instance("CreditCard", o))
    \/ \E o \in BankAccountOptionSet : InitWith(Instance("BankAccount", o))
    \/ \E o \in URLOptionSet : InitWith(Instance("URL", o))

\* validate(v) returns (or throws) r and leaves the cursor at li
Returns(v, r, li) ==
    /\ arg' = v
    /\ out' = r
    /\ lastIndex' = li
    /\ op' = "validate"
    /\ repeated' = (op = "validate" /\ arg = v)
    /\ prevOut' = IF op = "validate" /\ arg = v THEN out ELSE NoResult
    /\ UNCHANGED <<inst, now, sess>>

EmailCall ==
    /\ inst.class = "Email"
    /\ \E v \in EmailInputs : Returns(v, EmailValidate(inst.options, v), lastIndex)

PhoneCall ==
    /\ inst.class = "Phone"
    /\ \E v \in PhoneInputs : Returns(v, PhoneValidate(inst.options, v), lastIndex)

AddressCall ==
    /\ inst.class = "Address"
    /\ \E v \in AddressInputs :
           Returns(v, AddressValidate(inst.options, v, lastIndex)[1],
                   AddressValidate(inst.options, v, lastIndex)[2])

NameCall ==
    /\ inst.class = "Name"
    /\ \E v \in NameInputs : Returns(v, NameValidate(inst.options, v), lastIndex)

UsernameCall ==
    /\ inst.class = "Username"
    /\ \E v \in UsernameInputs :
           Returns(v, UsernameValidate(inst.options, v, lastIndex)[1],
                   UsernameValidate(inst.options, v, lastIndex)[2])

PasswordCall ==
    /\ inst.class = "Password"
    /\ \E v \in PasswordInputs : Returns(v, PasswordValidate(inst.options, v), lastIndex)

ApiKeyCall ==
    /\ inst.class = "ApiKey"
    /\ \E v \in ApiKeyInputs :
           Returns(v, ApiKeyValidate(inst.options, v, lastIndex)[1],
                   ApiKeyValidate(inst.options, v, lastIndex)[2])

TokenCall ==
    /\ inst.class = "Token"
    /\ \E v \in TokenInputs : Returns(v, TokenValidate(inst.options, v, now), lastIndex)

TwoFactorCall ==
    /\ inst.class = "TwoFactor"
    /\ \E v \in TwoFactorInputs : Returns(v, TwoFactorValidate(inst.options, v, now), lastIndex)

AgeCall ==
    /\ inst.class = "Age"
    /\ \E v \in AgeInputs : Returns(v, AgeValidate(inst.options, v, now), lastIndex)

DOBCall ==
    /\ inst.class = "DOB"
    /\ \E v \in DOBInputs : Returns(v, DOBValidate(inst.options, v, now), lastIndex)

GenderCall ==
    /\ inst.class = "Gender"
    /\ \E v \in GenderInputs : Returns(v, GenderValidate(inst.options, v), lastIndex)

PassportCall ==
    /\ inst.class = "Passport"
    /\ \E v \in PassportInputs : Returns(v, PassportValidate(inst.options, v, now), lastIndex)

CreditCardCall ==
    /\ inst.class = "CreditCard"
    /\ \E v \in CreditCardInputs :
           Returns(v, CreditCardValidate(inst.options, v, now), lastIndex)

BankAccountCall ==
    /\ inst.class = "BankAccount"
    /\ \E v \in BankAccountInputs :
           Returns(v, BankAccountValidate(inst.options, v, lastIndex)[1],
                   BankAccountValidate(inst.options, v, lastIndex)[2])

\* a validate that clears lastError when it succeeds; the frame property of validate is
\* checked against it to see that it depends on the success path leaving lastError alone
URLCallByClearing(c, inputs) ==
    /\ inst.class = "URL"
    /\ \E v \in inputs :
        LET r == URLValidate(inst.options, v, lastIndex)
        IN  /\ arg' = v
            /\ out' = BoolResult(r.ok)
            /\ lastIndex' = r.li
            /\ inst' = [inst EXCEPT !.lastError = IF r.ok THEN inst.options.errorMessage
                                                ELSE r.error]
            /\ sess' = [sess EXCEPT ![c].pc = "validated", ![c].msg = "",
                                    ![c].own = IF r.ok THEN @ ELSE r.error]
            /\ op' = "validate"
            /\ repeated' = (op = "validate" /\ arg = v)
            /\ prevOut' = IF op = "validate" /\ arg = v THEN out ELSE NoResult
            /\ UNCHANGED now

\* caller c calls validate(v) on the URLValidator: a false result stores its message
URLCallBy(c, inputs) ==
    /\ inst.class = "URL"
    /\ \E v \in inputs :
        LET r == URLValidate(inst.options, v, lastIndex)
        IN  /\ arg' = v
            /\ out' = BoolResult(r.ok)
            /\ lastIndex' = r.li
            /\ inst' = [inst EXCEPT !.lastError = IF r.ok THEN @ ELSE r.error]
            /\ sess' = [sess EXCEPT ![c].pc = "validated", ![c].msg = "",
                                    ![c].own = IF r.ok THEN @ ELSE r.error]
            /\ op' = "validate"
            /\ repeated' = (op = "validate" /\ arg = v)
            /\ prevOut' = IF op = "validate" /\ arg = v THEN out ELSE NoResult
            /\ UNCHANGED now

URLCall == URLCallBy("A", URLInputs)

\* caller c calls getErrorMessage()
GetErrorMessageBy(c) ==
    /\ inst.class = "URL"
    /\ sess' = [sess EXCEPT ![c].pc = "got", ![c].msg = inst.lastError]
    /\ op' = "getErrorMessage"
    /\ repeated' = FALSE
    /\ prevOut' = NoResult
    /\ UNCHANGED <<inst, lastIndex, now, arg, out>>

\* caller c calls resetError()
ResetErrorBy(c) ==
    /\ inst.class = "URL"
    /\ inst' = [inst EXCEPT !.lastError = inst.options.errorMessage]
    /\ sess' = [sess EXCEPT ![c].pc = "idle", ![c].msg = "",
                            ![c].own = inst.options.errorMessage]
    /\ op' = "resetError"
    /\ repeated' = FALSE
    /\ prevOut' = NoResult
    /\ UNCHANGED <<lastIndex, now, arg, out>>

\* time passes
Tick ==
    /\ now < Len(Instants)
    /\ now' = now + 1
    /\ op' = "tick"
    /\ repeated' = FALSE
    /\ prevOut' = NoResult
    /\ UNCHANGED <<inst, lastIndex, arg, out, sess>>

Next ==
    \/ EmailCall \/ PhoneCall \/ AddressCall \/ NameCall \/ UsernameCall \/ PasswordCall
    \/ ApiKeyCall \/ TokenCall \/ TwoFactorCall \/ AgeCall \/ DOBCall \/ GenderCall
    \/ PassportCall \/ CreditCardCall \/ BankAccountCall \/ URLCall \/ Tick

Spec == Init /\ [][Next]_vars

(***************************************************************************)
(* One validator on its own: the same instances and calls as in Spec,       *)
(* restricted to a single class.                                            *)
(***************************************************************************)
InitEmail == \E o \in EmailOptionSet : InitWith(Instance("Email", o))
NextEmail == EmailCall
SpecEmail == InitEmail /\ [][NextEmail]_vars

InitPassword == \E o \in PasswordOptionSet : InitWith(Instance("Password", o))
NextPassword == PasswordCall
SpecPassword == InitPassword /\ [][NextPassword]_vars

InitCreditCard == \E o \in CreditCardOptionSet : InitWith(Instance("CreditCard", o))
NextCreditCard == CreditCardCall \/ Tick
SpecCreditCard == InitCreditCard /\ [][NextCreditCard]_vars

InitBankAccount == \E o \in BankAccountOptionSet : InitWith(Instance("BankAccount", o))
NextBankAccount == BankAccountCall
SpecBankAccount == InitBankAccount /\ [][NextBankAccount]_vars

InitPhone == \E o \in PhoneOptionSet : InitWith(Instance("Phone", o))
NextPhone == PhoneCall
SpecPhone == InitPhone /\ [][NextPhone]_vars

InitTwoFactor == \E o \in TwoFactorOptionSet : InitWith(Instance("TwoFactor", o))
NextTwoFactor == TwoFactorCall \/ Tick
SpecTwoFactor == InitTwoFactor /\ [][NextTwoFactor]_vars

\* the two validators with a caseSensitive option
InitCaseFold ==
    \/ \E o \in UsernameOptionSet : InitWith(Instance("Username", o))
    \/ \E o \in GenderOptionSet : InitWith(Instance("Gender", o))
NextCaseFold == UsernameCall \/ GenderCall
SpecCaseFold == InitCaseFold /\ [][NextCaseFold]_vars

InitDOB == \E o \in DOBOptionSet : InitWith(Instance("DOB", o))
NextDOB == DOBCall \/ Tick
SpecDOB == InitDOB /\ [][NextDOB]_vars

InitName == \E o \in NameOptionSet : InitWith(Instance("Name", o))
NextName == NameCall
SpecName == InitName /\ [][NextName]_vars

\* PasswordValidator called on the spellings of the listed passwords
CommonPasswordCall ==
    /\ inst.class = "Password"
    /\ \E v \in CommonPasswordInputs \cup PasswordInputs :
           Returns(v, PasswordValidate(inst.options, v), lastIndex)
NextCommonPassword == CommonPasswordCall
SpecCommonPassword == InitPassword /\ [][NextCommonPassword]_vars

InitURL == \E o \in URLOptionSet : InitWith(Instance("URL", o))
NextURL == URLCall \/ GetErrorMessageBy("A") \/ ResetErrorBy("A")
SpecURL == InitURL /\ [][NextURL]_vars


(***************************************************************************)
(* Two callers sharing one URLValidator: every interleaving of their        *)
(* validate, getErrorMessage and resetError calls.                          *)
(***************************************************************************)
SharedOptionSet ==
    { URLOptions(URLNoOptions),
      URLOptions([URLNoOptions EXCEPT !.allowedDomains = Some(<<S_example_com>>),
                                      !.errorMessage = Some("Bad URL")]) }

SharedInputs ==
    { Num(5), NotAURL(11, FALSE),
      ParsedURL(19, "https:", S_example_com, <<>>, S_root_path, <<>>, FALSE, FALSE),
      ParsedURL(19, "https:", S_ip4, <<>>, S_root_path, <<>>, FALSE, FALSE) }

InitShared == \E o \in SharedOptionSet : InitWith(Instance("URL", o))

NextShared ==
    \E c \in Callers :
        \/ URLCallBy(c, SharedInputs)
        \/ GetErrorMessageBy(c)
        \/ ResetErrorBy(c)

SpecShared == InitShared /\ [][NextShared]_vars

(***************************************************************************)
(* The checksum step on its own: digit strings of every length a card       *)
(* number can have, checked, then changed in one digit and checked again.   *)
(***************************************************************************)
MinLuhnLen == 13
MaxLuhnLen == 19

Filler == <<"4","5","3","9","5","7","8","7","6","3","6","2","1","4","8","6","0","2","9","1">>
FreePositions == {2, 3}

\* the filler digits cut to len, with digit d at position p and c as the last digit
LuhnCandidate(len, p, d, c) ==
    [i \in 1..len |-> IF i = len THEN DigitSeq[c + 1]
                      ELSE IF i = p THEN DigitSeq[d + 1]
                      ELSE Filler[i]]

InitLuhn ==
    /\ inst = Instance("CreditCard", CreditCardDefaults)
    /\ lastIndex = 0
    /\ now = 1
    /\ op = "new"
    /\ \E len \in MinLuhnLen..MaxLuhnLen, p \in FreePositions, d \in 0..9, c \in 0..9 :
           arg = Str(LuhnCandidate(len, p, d, c))
    /\ out = NoResult
    /\ prevOut = NoResult
    /\ repeated = FALSE
    /\ sess = [c \in Callers |-> IdleSession(inst)]

\* validateLuhnChecksum(arg)
ChecksumStep ==
    /\ op \in {"new", "replaced"}
    /\ out' = BoolResult(validateLuhnChecksum(arg.s))
    /\ op' = IF op = "new" THEN "checksum" ELSE "rechecked"
    /\ UNCHANGED <<inst, lastIndex, now, arg, prevOut, repeated, sess>>

\* one digit of an accepted string is replaced by a different digit
ReplaceDigit ==
    /\ op = "checksum"
    /\ out.isValid
    /\ \E i \in 1..Len(arg.s), d \in Digits :
           /\ d # arg.s[i]
           /\ arg' = Str([arg.s EXCEPT ![i] = d])
    /\ prevOut' = out
    /\ op' = "replaced"
    /\ UNCHANGED <<inst, lastIndex, now, out, repeated, sess>>

NextLuhn == ChecksumStep \/ ReplaceDigit

SpecLuhn == InitLuhn /\ [][NextLuhn]_vars


(***************************************************************************)
(* Properties                                                               *)
(***************************************************************************)
\* a validate call of a Result-returning validator has just returned
Returned == op = "validate" /\ inst.class # "URL" /\ ~out.threw

ValuePresent(r) == r.value # None /\ r.value[1] # Undef
ErrorsPresent(r) == r.errors # None /\ Len(r.errors[1]) > 0

\* C1: for every Result-returning validator, configuration and input, the result validate
\* returns has isValid = true iff value is present and errors is absent, and
\* isValid = false iff errors is present and non-empty and value is absent.
C1_ResultInvariant ==
    Returned =>
        /\ out.isValid <=> (ValuePresent(out) /\ out.errors = None)
        /\ ~out.isValid <=> (ErrorsPresent(out) /\ out.value = None)

\* an AgeValidator success built as an object literal from a Date, on a repeated call
C1_Witness ==
    /\ Returned
    /\ inst.class = "Age"
    /\ arg.t = "date"
    /\ out.isValid
    /\ repeated


\* the error codes of the validators that end in _REQUIRED
RequiredCodes ==
    { "ACCOUNT_NAME_REQUIRED", "ACCOUNT_NUMBER_REQUIRED", "ACCOUNT_TYPE_REQUIRED",
      "ADDRESS_REQUIRED", "AGE_REQUIRED", "APIKEY_REQUIRED", "BANK_ACCOUNT_REQUIRED",
      "BANK_NAME_REQUIRED", "CARDHOLDER_NAME_REQUIRED", "CARD_NUMBER_REQUIRED",
      "CITY_REQUIRED", "COUNTRY_CODE_REQUIRED", "COUNTRY_REQUIRED", "CREDIT_CARD_REQUIRED",
      "CVV_REQUIRED", "DOB_REQUIRED", "EMAIL_REQUIRED", "EXPIRY_REQUIRED", "GENDER_REQUIRED",
      "NAME_REQUIRED", "PASSPORT_NUMBER_REQUIRED", "PASSPORT_REQUIRED", "PASSWORD_REQUIRED",
      "PHONE_REQUIRED", "POSTAL_CODE_REQUIRED", "ROUTING_NUMBER_REQUIRED", "STATE_REQUIRED",
      "STREET_REQUIRED", "TOKEN_REQUIRED", "TWOFACTOR_CODE_REQUIRED", "TWOFACTOR_REQUIRED",
      "USERNAME_REQUIRED" }

\* the primary field of the structured inputs, for the validators that have no option
\* making it optional
PrimaryField ==
    [Password |-> "password", Token |-> "token", TwoFactor |-> "code", Passport |-> "number"]

IsEmptyString(v) == v.t = "string" /\ Len(v.s) = 0

\* null, undefined, the empty string, or an object whose primary field is one of these
AbsentOrEmpty(class, v) ==
    \/ IsNullish(v)
    \/ IsEmptyString(v)
    \/ /\ v.t = "object"
       /\ class \in DOMAIN PrimaryField
       /\ \/ IsNullish(Field(v, PrimaryField[class]))
          \/ IsEmptyString(Field(v, PrimaryField[class]))

\* C2: for every Result-returning validator, validate called with absent input (null,
\* undefined) or empty input (the empty string, or a structured input whose primary field
\* is missing or empty) returns isValid = false with a single error whose code ends in
\* _REQUIRED; no other error code and no exception results from such an input.
C2_AbsentIsRequired ==
    (op = "validate" /\ inst.class # "URL" /\ AbsentOrEmpty(inst.class, arg)) =>
        /\ ~out.threw
        /\ ~out.isValid
        /\ out.errors # None
        /\ Len(out.errors[1]) = 1
        /\ ErrorCode(out) \in RequiredCodes


\* C3: no validate call raises an exception for invalid input: every call returns, except
\* AgeValidator given a birth Date in the future with validateFromDate enabled.
C3_NeverThrows ==
    (op = "validate" /\ out.threw) =>
        /\ inst.class = "Age"
        /\ inst.options.validateFromDate
        /\ arg.t = "date"
        /\ DateAfter(arg.d, Today(now))


\* C4: calling validate twice in a row on the same instance with the same input, at the
\* same clock value, returns identical results, for every validator and configuration,
\* caller-supplied pattern options included.
C4_Deterministic == repeated => out = prevOut


\* C5: a validate call never changes the state of the validator instance it is called on:
\* for every validator, URLValidator included, all instance fields after validate returns
\* equal their values before the call.
C5_NoInstanceChange == [][op' = "validate" => inst' = inst]_vars


\* C6: two callers sharing one URLValidator are isolated under every interleaving of their
\* calls: the message a caller obtains from getErrorMessage() is the one its own calls
\* alone would have left, even when the other caller's validate runs in between.
C6_Isolation == \A c \in Callers : sess[c].pc = "got" => sess[c].msg = sess[c].own


\* card data whose fields are strings or missing
WellTypedCard(card) ==
    /\ card.t = "object"
    /\ \A f \in {"number", "expiry", "cvv", "name"} :
           Field(card, f).t \in {"string", "undefined"}

\* the code of the earliest violated rule in the order required -> (number supplied)
\* type detected, type allowed -> Luhn -> expiry required -> expiry format -> expiry not
\* past -> CVV required -> CVV format/length -> name required; "" when no rule is violated
EarliestViolatedRule(o, card, t) ==
    LET number == Field(card, "number")
        expiry == Field(card, "expiry")
        cvv == Field(card, "cvv")
        name == Field(card, "name")
        supplied == Truthy(number)
        stripped == IF supplied THEN Strip(number.s, CardCharsStripped) ELSE <<>>
        brand == detectCardType(stripped)
    IN  IF o.numberRequired /\ ~supplied THEN "CARD_NUMBER_REQUIRED"
        ELSE IF supplied /\ brand = "unknown" THEN "INVALID_CARD_NUMBER_FORMAT"
        ELSE IF supplied /\ ~InList(brand, o.allowedCardTypes) THEN "CARD_TYPE_NOT_ALLOWED"
        ELSE IF supplied /\ o.validateLuhn /\ ~validateLuhnChecksum(stripped)
            THEN "INVALID_CARD_NUMBER_CHECKSUM"
        ELSE IF o.expiryRequired /\ Falsy(expiry) THEN "EXPIRY_REQUIRED"
        ELSE IF Truthy(expiry) /\ ~expiryPattern(expiry.s) THEN "INVALID_EXPIRY_FORMAT"
        ELSE IF Truthy(expiry) /\ ~validateExpiryDate(expiry.s, Today(t)) THEN "EXPIRED_CARD"
        ELSE IF o.cvvRequired /\ Falsy(cvv) THEN "CVV_REQUIRED"
        ELSE IF Truthy(cvv) /\ ~(/\ AllIn(cvv.s, Digits)
                                 /\ Len(cvv.s) = IF brand = "amex" THEN 4 ELSE 3)
            THEN "INVALID_CVV"
        ELSE IF o.nameRequired /\ Falsy(name) THEN "CARDHOLDER_NAME_REQUIRED"
        ELSE ""

\* C7: CreditCardValidator applies its rules in the fixed order required -> (if number
\* present) type detected/allowed -> Luhn -> expiry required -> expiry format -> expiry not
\* past -> CVV required -> CVV format/length -> name required, and for card data violating
\* several rules the single returned error is that of the earliest violated rule.
C7_RuleOrder ==
    (op = "validate" /\ inst.class = "CreditCard" /\ WellTypedCard(arg)
       /\ EarliestViolatedRule(inst.options, arg, now) # "") =>
        Failed(out, EarliestViolatedRule(inst.options, arg, now))


\* the card number supplied in the last call, when it is a non-empty string
SuppliedNumber ==
    /\ op = "validate"
    /\ inst.class = "CreditCard"
    /\ arg.t = "object"
    /\ Field(arg, "number").t = "string"
    /\ Len(Field(arg, "number").s) > 0

SuppliedBrand == detectCardType(Strip(Field(arg, "number").s, CardCharsStripped))

\* C8: whenever a non-empty card number is supplied and, after stripping spaces and dashes,
\* it matches no brand pattern, validate fails with INVALID_CARD_NUMBER_FORMAT; whenever it
\* matches a brand that is not in allowedCardTypes, validate fails with
\* CARD_TYPE_NOT_ALLOWED; a supplied number is never accepted with cardType 'unknown'.
C8_UnknownBrandRejected ==
    SuppliedNumber =>
        /\ SuppliedBrand = "unknown" => Failed(out, "INVALID_CARD_NUMBER_FORMAT")
        /\ (SuppliedBrand # "unknown" /\ ~InList(SuppliedBrand, inst.options.allowedCardTypes))
               => Failed(out, "CARD_TYPE_NOT_ALLOWED")
        /\ ~(~out.threw /\ out.isValid /\ out.value[1].o.cardType = "unknown")


\* the Luhn formula as it is stated: the k-th digit from the right counts as itself when
\* k is odd and doubled, less 9 when the double exceeds 9, when k is even
LuhnTerm(s, k) ==
    LET digit == DigitVal(s[Len(s) - k + 1])
    IN  IF k % 2 = 1 THEN digit
        ELSE IF 2 * digit > 9 THEN 2 * digit - 9 ELSE 2 * digit

RECURSIVE LuhnSumUpTo(_, _)
LuhnSumUpTo(s, k) == IF k = 0 THEN 0 ELSE LuhnTerm(s, k) + LuhnSumUpTo(s, k - 1)

LuhnFormula(s) == LuhnSumUpTo(s, Len(s)) % 10 = 0

\* C9: with validateLuhn on, a brand-recognised and allowed card number is rejected with
\* INVALID_CARD_NUMBER_CHECKSUM if and only if its Luhn sum (from the rightmost digit,
\* every second digit doubled, 9 subtracted when the double exceeds 9, all summed) is not
\* 0 mod 10; with validateLuhn off that code is never returned.
C9_LuhnChecksum ==
    /\ (SuppliedNumber /\ SuppliedBrand # "unknown"
          /\ InList(SuppliedBrand, inst.options.allowedCardTypes)
          /\ inst.options.validateLuhn) =>
           (Failed(out, "INVALID_CARD_NUMBER_CHECKSUM")
              <=> ~LuhnFormula(Strip(Field(arg, "number").s, CardCharsStripped)))
    /\ (op = "validate" /\ inst.class = "CreditCard" /\ ~inst.options.validateLuhn) =>
           ~Failed(out, "INVALID_CARD_NUMBER_CHECKSUM")

\* a recognised, allowed American Express number rejected for its checksum
C9_Witness ==
    /\ SuppliedNumber
    /\ SuppliedBrand = "amex"
    /\ inst.options.validateLuhn
    /\ Failed(out, "INVALID_CARD_NUMBER_CHECKSUM")


\* C10: every 13-19 digit string satisfying the Luhn formula is accepted by the checksum
\* step (validateLuhnChecksum returns true), and replacing any single digit of an accepted
\* string by a different digit yields a string the checksum step rejects.
C10_LuhnRoundTrip ==
    /\ (op = "checksum" /\ LuhnFormula(arg.s)) => out.isValid
    /\ op = "rechecked" => (prevOut.isValid /\ ~out.isValid)

\* a 19-digit string that was accepted, had one digit replaced, and is now rejected
C10_Witness ==
    /\ op = "rechecked"
    /\ Len(arg.s) = MaxLuhnLen
    /\ prevOut.isValid
    /\ ~out.isValid


\* a CreditCardValidator call that succeeded for a supplied string number
CardAccepted ==
    /\ SuppliedNumber
    /\ ~out.threw
    /\ out.isValid

SuppliedDigits == Strip(Field(arg, "number").s, CardCharsStripped)
MaskedNumber == out.value[1].o.number.s

\* C11: for every card number of length N >= 4, maskCardNumber returns a string in which
\* every digit except the last 4 is replaced by '*', the last 4 visible characters equal the
\* input's last 4 digits, and the characters are grouped into blocks of exactly 4 separated
\* by single spaces.
C11_MaskShape ==
    (CardAccepted /\ Len(SuppliedDigits) >= 4) =>
        /\ Strip(MaskedNumber, {" "}) =
               Repeat("*", Len(SuppliedDigits) - 4)
                   \o SubSeq(SuppliedDigits, Len(SuppliedDigits) - 3, Len(SuppliedDigits))
        /\ \A i \in 1..Len(Split(MaskedNumber, " ")) : Len(Split(MaskedNumber, " ")[i]) = 4


\* C11 as the code has it: the digits before the last 4 are replaced by '*' and the last 4
\* are kept; the blocks are cut from the left, so every block but the last has exactly 4
\* characters and the last one has the remaining 1 to 4 (4 only when N is a multiple of 4).
C11_MaskShapeFromLeft ==
    (CardAccepted /\ Len(SuppliedDigits) >= 4) =>
        LET blocks == Split(MaskedNumber, " ")
            N == Len(SuppliedDigits)
        IN  /\ Strip(MaskedNumber, {" "}) =
                   Repeat("*", N - 4) \o SubSeq(SuppliedDigits, N - 3, N)
            /\ Len(blocks) = (N + 3) \div 4
            /\ \A i \in 1..(Len(blocks) - 1) : Len(blocks[i]) = 4
            /\ Len(blocks[Len(blocks)]) = ((N - 1) % 4) + 1

\* an accepted 15-digit American Express number, whose last block has 3 characters
C11_Witness ==
    /\ CardAccepted
    /\ SuppliedBrand = "amex"
    /\ Len(SuppliedDigits) = 15
    /\ Len(MaskedNumber) = 18


NumberRuleCodes ==
    { "CARD_NUMBER_REQUIRED", "CARD_TYPE_NOT_ALLOWED", "INVALID_CARD_NUMBER_FORMAT",
      "INVALID_CARD_NUMBER_CHECKSUM" }

\* a CreditCardValidator call with well-typed data that passed the card number rules and
\* carries an expiry in the format MM/YY or MM/YYYY
ExpiryChecked ==
    /\ op = "validate"
    /\ inst.class = "CreditCard"
    /\ WellTypedCard(arg)
    /\ Truthy(Field(arg, "expiry"))
    /\ expiryPattern(Field(arg, "expiry").s)
    /\ ~(\E code \in NumberRuleCodes : Failed(out, code))

\* the last day of the expiry month is a day strictly before the current date, i.e. the
\* expiry month is an earlier month than the current one
ExpiryMonthPast(expiry, today) ==
    LET year == IF Len(expiry) = 5 THEN 2000 + TwoDigits(expiry, 4) ELSE FourDigits(expiry, 4)
        month == TwoDigits(expiry, 1)
    IN  year < today.y \/ (year = today.y /\ month < today.m)

\* C12: for an expiry in format MM/YY (year 2000 + YY) or MM/YYYY, CreditCardValidator
\* returns EXPIRED_CARD if and only if the last day of the expiry month is strictly before
\* the current date; a card whose expiry month is the current month is not reported expired
\* on any day of that month, at any time of day on the month's last day included.
C12_ExpiryRule ==
    ExpiryChecked =>
        (Failed(out, "EXPIRED_CARD")
            <=> ExpiryMonthPast(Field(arg, "expiry").s, Today(now)))


\* a CreditCardValidator call with well-typed data that supplies a CVV and passed the card
\* number and expiry rules
CvvChecked ==
    /\ op = "validate"
    /\ inst.class = "CreditCard"
    /\ WellTypedCard(arg)
    /\ Truthy(Field(arg, "cvv"))
    /\ ~(\E code \in NumberRuleCodes \cup
                     {"EXPIRY_REQUIRED", "INVALID_EXPIRY_FORMAT", "EXPIRED_CARD"} :
             Failed(out, code))

DetectedType ==
    IF Truthy(Field(arg, "number"))
    THEN detectCardType(Strip(Field(arg, "number").s, CardCharsStripped))
    ELSE "unknown"

\* C13: when a CVV is supplied and all earlier checks pass, CreditCardValidator accepts it
\* if and only if it consists only of digits and its length is exactly 4 when the detected
\* card type is Amex and exactly 3 for every other type; otherwise it returns INVALID_CVV.
C13_CvvRule ==
    CvvChecked =>
        (Failed(out, "INVALID_CVV")
            <=> ~(/\ AllIn(Field(arg, "cvv").s, Digits)
                  /\ Len(Field(arg, "cvv").s) = IF DetectedType = "amex" THEN 4 ELSE 3))

\* a three-digit CVV rejected for an American Express card
C13_Witness ==
    /\ CvvChecked
    /\ DetectedType = "amex"
    /\ Field(arg, "cvv").s = S_123
    /\ Failed(out, "INVALID_CVV")


\* C14: with default options and a current date not later than December 2030,
\* validate({number:'4111111111111111', expiry:'12/30', cvv:'123'}) returns isValid = true
\* with value.cardType = 'visa' and value.number = '**** **** **** 1111'; every successful
\* result carries the detected card type and the masked, never the raw, number.
C14_DefaultVisaAccepted ==
    /\ (/\ op = "validate"
        /\ inst.class = "CreditCard"
        /\ inst.options = CreditCardDefaults
        /\ arg = Card(Str(S_visa), Str(S_12_30), Str(S_123), Undef)
        /\ (Today(now).y < 2030 \/ (Today(now).y = 2030 /\ Today(now).m <= 12))) =>
           /\ ~out.threw
           /\ out.isValid
           /\ out.value[1].o.cardType = "visa"
           /\ out.value[1].o.number = Str(S_masked_1111)
    /\ CardAccepted =>
           /\ out.value[1].o.cardType = DetectedType
           /\ MaskedNumber = maskCardNumber(SuppliedDigits)
           /\ Len(SuppliedDigits) >= 4 => MaskedNumber # SuppliedDigits


\* the ABA formula as it is stated: digit i weighs 3, 7, 1 in turn
AbaFormula(r) ==
    LET w(i) == <<3, 7, 1>>[((i - 1) % 3) + 1]
        term(i) == DigitVal(r[i]) * w(i)
    IN  (term(1) + term(2) + term(3) + term(4) + term(5) + term(6) + term(7) + term(8)
           + term(9)) % 10 = 0

\* a BankAccountValidator call with default options on an account with a valid account
\* number and account name, no bank name or account type, and a 9-digit routing number
RoutingChecked ==
    /\ op = "validate"
    /\ inst.class = "BankAccount"
    /\ inst.options = BankAccountDefaults
    /\ arg.t = "object"
    /\ Field(arg, "accountNumber").t = "string"
    /\ Len(DigitsOnly(Field(arg, "accountNumber").s)) \in 5..17
    /\ Field(arg, "accountName").t = "string"
    /\ Len(Field(arg, "accountName").s) > 0
    /\ Field(arg, "bankName") = Undef
    /\ Field(arg, "accountType") = Undef
    /\ Field(arg, "routingNumber").t = "string"
    /\ Len(Field(arg, "routingNumber").s) = 9
    /\ AllIn(Field(arg, "routingNumber").s, Digits)

\* C15: with default options, for a bank account whose account number and account name are
\* valid, BankAccountValidator accepts a 9-digit routing number if and only if the sum of
\* digit[i] * weight[i] over weights [3,7,1,3,7,1,3,7,1] is 0 mod 10 and otherwise returns
\* INVALID_ROUTING_NUMBER_CHECKSUM; {accountNumber:'12345678', routingNumber:'021000021',
\* accountName:'J Doe'} is valid and the same record with routingNumber '021000022' is not.
C15_RoutingChecksum ==
    /\ RoutingChecked =>
           IF AbaFormula(Field(arg, "routingNumber").s)
           THEN ~out.threw /\ out.isValid
           ELSE Failed(out, "INVALID_ROUTING_NUMBER_CHECKSUM")
    /\ (RoutingChecked /\ arg = BankAccount(Str(S_acct), Str(S_routing), Str(S_J_Doe),
                                            Undef, Undef)) => out.isValid
    /\ (RoutingChecked /\ arg = BankAccount(Str(S_acct), Str(S_routing_bad), Str(S_J_Doe),
                                            Undef, Undef)) => ~out.isValid

\* the record of the example with routing number 021000022, rejected for its checksum
C15_Witness ==
    /\ RoutingChecked
    /\ arg = BankAccount(Str(S_acct), Str(S_routing_bad), Str(S_J_Doe), Undef, Undef)
    /\ Failed(out, "INVALID_ROUTING_NUMBER_CHECKSUM")


\* a BankAccountValidator call that supplied a string routing number and passed the
\* account number rules
RoutingSupplied ==
    /\ op = "validate"
    /\ inst.class = "BankAccount"
    /\ arg.t = "object"
    /\ Field(arg, "routingNumber").t = "string"
    /\ Len(Field(arg, "routingNumber").s) > 0
    /\ ~out.threw
    /\ ~(\E code \in {"ACCOUNT_NUMBER_REQUIRED", "ACCOUNT_NUMBER_TOO_SHORT",
                      "ACCOUNT_NUMBER_TOO_LONG"} : Failed(out, code))

ExactlyNineDigits(s) == Len(s) = 9 /\ AllIn(s, Digits)

\* C16: the ABA checksum is applied only after a 9-digit format check has passed: for every
\* configuration, a caller-supplied routingNumberPattern included, BankAccountValidator
\* returns INVALID_ROUTING_NUMBER_CHECKSUM only for routing numbers of exactly 9 digits, and
\* any supplied routing number that is not exactly 9 digits is rejected with
\* INVALID_ROUTING_NUMBER_FORMAT.
C16_ChecksumAfterFormat ==
    RoutingSupplied =>
        /\ Failed(out, "INVALID_ROUTING_NUMBER_CHECKSUM")
               => ExactlyNineDigits(Field(arg, "routingNumber").s)
        /\ ~ExactlyNineDigits(Field(arg, "routingNumber").s)
               => Failed(out, "INVALID_ROUTING_NUMBER_FORMAT")


\* an EmailValidator call under a configuration with allowedDomains = ['example.com']
ExampleComAllowed ==
    /\ op = "validate"
    /\ inst.class = "Email"
    /\ inst.options.allowedDomains = <<S_example_com>>

DefaultEmailCall ==
    /\ op = "validate"
    /\ inst.class = "Email"
    /\ inst.options = EmailDefaults
    /\ arg.t = "string"

\* C18: with default options EmailValidator.validate(e) returns EMAIL_REQUIRED for the empty
\* string, EMAIL_TOO_LONG when length > 254 (checked before the format),
\* INVALID_EMAIL_FORMAT when e does not match the simple pattern, and otherwise succeeds
\* with value equal to e trimmed and lower-cased; validate('a@b.com') gives isValid = true,
\* value = 'a@b.com'.
C18_EmailDefaults ==
    /\ DefaultEmailCall =>
           IF Len(arg.s) = 0 THEN Failed(out, "EMAIL_REQUIRED")
           ELSE IF Len(arg.s) > 254 THEN Failed(out, "EMAIL_TOO_LONG")
           ELSE IF ~simpleEmailPattern(arg.s) THEN Failed(out, "INVALID_EMAIL_FORMAT")
           ELSE /\ ~out.threw
                /\ out.isValid
                /\ out.value[1] = Str(ToLowerCase(Trim(arg.s)))
    /\ (DefaultEmailCall /\ arg = Str(S_a_at_b_com)) =>
           (out.isValid /\ out.value[1] = Str(S_a_at_b_com))

\* a string of 255 characters without '@': too long and malformed, reported as too long
C18_Witness ==
    /\ DefaultEmailCall
    /\ Len(arg.s) = 255
    /\ ~simpleEmailPattern(arg.s)
    /\ Failed(out, "EMAIL_TOO_LONG")


\* the password and the username of a PasswordValidator call given a string or an object
\* with string fields
PasswordGiven == IF arg.t = "string" THEN arg ELSE Field(arg, "password")
UsernameGiven == IF arg.t = "string" THEN Undef ELSE Field(arg, "username")

WellTypedPassword ==
    /\ op = "validate"
    /\ inst.class = "Password"
    /\ arg.t \in {"string", "object"}
    /\ PasswordGiven.t \in {"string", "undefined"}
    /\ UsernameGiven.t \in {"string", "undefined"}

\* whether password p breaks rule number r of the order required, min length, max length,
\* uppercase, lowercase, digit, special character, common password, username substring
BreaksPasswordRule(o, p, u, r) ==
    CASE r = 1 -> Falsy(p)
      [] r = 2 -> Len(p.s) < o.minLength
      [] r = 3 -> Len(p.s) > o.maxLength
      [] r = 4 -> o.requireUppercase /\ ~\E i \in 1..Len(p.s) : p.s[i] \in Uppers
      [] r = 5 -> o.requireLowercase /\ ~\E i \in 1..Len(p.s) : p.s[i] \in Lowers
      [] r = 6 -> o.requireNumbers /\ ~\E i \in 1..Len(p.s) : p.s[i] \in Digits
      [] r = 7 -> o.requireSpecialChars /\ ~\E i \in 1..Len(p.s) : p.s[i] \in SpecialChars
      [] r = 8 -> /\ o.disallowCommonPasswords
                  /\ \E k \in 1..Len(o.commonPasswordsArray) :
                         o.commonPasswordsArray[k] = ToLowerCase(p.s)
      [] r = 9 -> /\ o.preventUsernameInPassword
                  /\ Truthy(u)
                  /\ Len(u.s) > 2
                  /\ Includes(ToLowerCase(p.s), ToLowerCase(u.s))

PasswordRuleCode ==
    << "PASSWORD_REQUIRED", "PASSWORD_TOO_SHORT", "PASSWORD_TOO_LONG",
       "PASSWORD_REQUIRES_UPPERCASE", "PASSWORD_REQUIRES_LOWERCASE",
       "PASSWORD_REQUIRES_NUMBER", "PASSWORD_REQUIRES_SPECIAL_CHAR", "PASSWORD_TOO_COMMON",
       "PASSWORD_CONTAINS_USERNAME" >>

\* C19: PasswordValidator evaluates its rules in the fixed order required -> min length ->
\* max length -> uppercase -> lowercase -> digit -> special character -> common-password
\* blocklist -> username substring and returns only the first violated rule's code; with
\* defaults validate('Passw0rd!') is valid and validate('password') is invalid with a
\* missing-character-class code or PASSWORD_TOO_COMMON as fixed by that order.
C19_PasswordRuleOrder ==
    /\ WellTypedPassword =>
           LET o == inst.options
               broken == IF Falsy(PasswordGiven) THEN {1}
                         ELSE { r \in 2..9 : BreaksPasswordRule(o, PasswordGiven,
                                                                UsernameGiven, r) }
           IN  IF broken = {} THEN ~out.threw /\ out.isValid
               ELSE /\ Failed(out, PasswordRuleCode[CHOOSE r \in broken :
                                                        \A q \in broken : r <= q])
                    /\ Len(out.errors[1]) = 1
    /\ (WellTypedPassword /\ inst.options = PasswordDefaults) =>
           /\ arg = Str(S_Passw0rd_bang) => out.isValid
           /\ arg = Str(S_password) => Failed(out, "PASSWORD_REQUIRES_UPPERCASE")

\* 'password' under defaults: it breaks the uppercase, digit, special-character and
\* common-password rules and is reported for the first of them
C19_Witness ==
    /\ WellTypedPassword
    /\ inst.options = PasswordDefaults
    /\ arg = Str(S_password)
    /\ Failed(out, "PASSWORD_REQUIRES_UPPERCASE")


\* the option fields by the kind of value they take
URLBooleanFields ==
    {"requireProtocol", "allowSubdomains", "allowIPAddresses", "requireSpecificPort",
     "requirePath", "allowQuery", "allowFragment", "allowAuth"}
URLListFields ==
    {"allowedProtocols", "allowedDomains", "allowedTLDs", "allowedPorts", "disallowPorts",
     "pathPattern", "maxPathSegments", "requiredQueryParams", "allowedQueryParams"}
URLScalarFields == {"maxLength", "errorMessage"}

\* every field present in the object handed to the constructor has that value in this.options
PassedInEffect(options, effective) ==
    /\ \A f \in URLBooleanFields : options[f] # None => effective[f] = options[f][1]
    /\ \A f \in URLListFields : options[f] # None => effective[f] = options[f]
    /\ \A f \in URLScalarFields : options[f] # None => effective[f] = options[f][1]

\* C20: every option field passed to the URLValidator constructor is the value in effect,
\* also when the passed value is falsy (0, false, the empty string): whichever option
\* object the instance was built from, its passed fields are the fields of this.options,
\* and a string longer than the passed maxLength is not accepted.
C20_PassedOptionsInEffect ==
    inst.class = "URL" =>
        \A options \in URLGivenSet :
            URLOptions(options) = inst.options =>
                /\ PassedInEffect(options, inst.options)
                /\ (/\ op = "validate" /\ IsString(arg) /\ options.maxLength # None
                    /\ arg.length > options.maxLength[1]) => out = BoolResult(FALSE)


\* the errorMessage an option object configures: the passed one, 'Invalid URL' when none is passed
ConfiguredErrorMessage(options) ==
    IF options.errorMessage = None THEN "Invalid URL" ELSE options.errorMessage[1]

\* the positions the cursor of a global pathPattern can be at when validate is entered
URLCursors ==
    {0} \cup { Len(v.url.pathname) : v \in { u \in URLInputs : IsString(u) /\ u.parses } }

\* the message getErrorMessage() hands to the caller
MessageGot == sess["A"].msg

\* C21: before any validate call and immediately after resetError(), getErrorMessage()
\* returns the configured errorMessage (default 'Invalid URL'); immediately after a
\* validate call that returned false it returns the message of the first rule that
\* failed in that call (type, max length, parse, protocol, domain, port, path, query,
\* fragment, credentials).
C21_ErrorSideChannel ==
    [][op' = "getErrorMessage" =>
          /\ op \in {"new", "resetError"} =>
                 \A options \in URLGivenSet :
                     URLOptions(options) = inst.options =>
                         MessageGot' = ConfiguredErrorMessage(options)
          /\ (op = "validate" /\ out = BoolResult(FALSE)) =>
                 \E li \in URLCursors :
                     /\ ~URLValidate(inst.options, arg, li).ok
                     /\ MessageGot' = URLValidate(inst.options, arg, li).error]_vars


\* a '+' number that begins with one of the codes of the list
StartsWithAllowedCode(p, codes) ==
    \E k \in 1..Len(codes) : StartsWith(Tail(p), codes[k])

\* a validate call on a string beginning with '+' and a digit that the format rule lets
\* through, by a validator with a non-empty allowedCountryCodes list
CountryCodeChecked ==
    /\ inst.class = "Phone" /\ op = "validate" /\ IsString(arg)
    /\ Len(inst.options.allowedCountryCodes) > 0
    /\ StartsWith(arg.s, <<"+">>)
    /\ Len(arg.s) > 1 /\ arg.s[2] \in Digits
    /\ basicPhonePattern(arg.s)

\* C22: allowed country codes are matched by prefix: a '+' number that begins with one of
\* the allowed codes is never rejected with COUNTRY_CODE_NOT_ALLOWED, and one that begins
\* with none of them is rejected with COUNTRY_CODE_NOT_ALLOWED.
C22_CountryCodeByPrefix ==
    CountryCodeChecked =>
        (Failed(out, "COUNTRY_CODE_NOT_ALLOWED")
            <=> ~StartsWithAllowedCode(arg.s, inst.options.allowedCountryCodes))


\* a validate call on a number with an 'x'-delimited extension whose main part has between
\* minLength and maxLength digits while main part and extension together exceed maxLength
ExtensionOverLength ==
    /\ inst.class = "Phone" /\ op = "validate" /\ IsString(arg)
    /\ HasExtension(arg.s)
    /\ Len(DigitsOnly(MainPart(arg.s))) >= inst.options.minLength
    /\ Len(DigitsOnly(MainPart(arg.s))) <= inst.options.maxLength
    /\ Len(DigitsOnly(arg.s)) > inst.options.maxLength

\* C23: the digit-count bounds set an extension apart: with allowExtension = true such a
\* number is accepted, with allowExtension = false it is rejected with PHONE_TOO_LONG.
C23_ExtensionBounds ==
    ExtensionOverLength =>
        IF inst.options.allowExtension THEN Returned /\ out.isValid
        ELSE Failed(out, "PHONE_TOO_LONG")


\* a validate call on a string that parses as a URL
ParsedCall == inst.class = "URL" /\ op = "validate" /\ IsString(arg) /\ arg.parses

\* C24: with requiredQueryParams = P validate returns false for every URL whose query does
\* not contain every parameter of P, URLs without a query string included; with
\* allowedQueryParams = A it returns false for every URL having a query parameter not in A.
C24_QueryParamSets ==
    ParsedCall =>
        /\ (/\ inst.options.requiredQueryParams # None
            /\ \E i \in 1..Len(inst.options.requiredQueryParams[1]) :
                   ~InList(inst.options.requiredQueryParams[1][i], arg.url.params))
               => out = BoolResult(FALSE)
        /\ (/\ inst.options.allowedQueryParams # None
            /\ \E i \in 1..Len(arg.url.params) :
                   ~InList(arg.url.params[i], inst.options.allowedQueryParams[1]))
               => out = BoolResult(FALSE)


\* the codes of the rules that come before the expiry rule
TwoFactorEarlierCodes ==
    {"TWOFACTOR_REQUIRED", "TWOFACTOR_CODE_REQUIRED", "INVALID_TWOFACTOR_LENGTH",
     "INVALID_TWOFACTOR_FORMAT", "INVALID_TWOFACTOR_TYPE"}

\* a validate call whose earlier checks pass on data that carries a timestamp t >= 0
ExpiryReached ==
    /\ inst.class = "TwoFactor" /\ op = "validate" /\ ~out.threw
    /\ arg.t = "object"
    /\ Field(arg, "timestamp").t = "number" /\ Field(arg, "timestamp").n >= 0
    /\ \A c \in TwoFactorEarlierCodes : ~Failed(out, c)

\* C25: when the earlier checks pass, the result is TWOFACTOR_EXPIRED exactly when the
\* current time in seconds is greater than timestamp + expiration, for every timestamp
\* t >= 0 and every window expiration >= 0, t = 0 and expiration = 0 included.
C25_ExpiryWindow ==
    ExpiryReached =>
        (Failed(out, "TWOFACTOR_EXPIRED")
            <=> Now(now).sec > Field(arg, "timestamp").n + inst.options.expiration)


\* a successful validate call of UsernameValidator or GenderValidator on a string
CaseFoldCall ==
    /\ inst.class \in {"Username", "Gender"} /\ op = "validate" /\ IsString(arg)
    /\ ~out.threw /\ out.isValid

\* C26: for UsernameValidator and GenderValidator the value of every successful result is
\* the input trimmed and lower-cased when caseSensitive = false, and the trimmed input
\* with its case kept when caseSensitive = true.
C26_CaseFoldedValue ==
    CaseFoldCall =>
        out.value = Some(Str(IF inst.options.caseSensitive THEN Trim(arg.s)
                             ELSE ToLowerCase(Trim(arg.s))))


\* the reference date of a DOBValidator at the current instant
ReferenceDate == IF inst.options.referenceDate # None THEN inst.options.referenceDate[1]
                 ELSE Today(now)

\* a successful DOBValidator call on a date of birth not later than the reference date
AgeComputed ==
    /\ inst.class = "DOB" /\ op = "validate" /\ ~out.threw /\ out.isValid
    /\ ~DateAfter(out.value[1].d, ReferenceDate)

\* C27: for every date of birth not later than the reference date the age breakdown has
\* years >= 0, 0 <= months <= 11 and days >= 0, also for a day-of-month 29-31 with a
\* reference date early in March.
C27_AgeBreakdownRange ==
    AgeComputed =>
        /\ out.meta[1].age.years >= 0
        /\ out.meta[1].age.months \in 0..11
        /\ out.meta[1].age.days >= 0


\* a NameValidator call that accepts its input
NameAccepted == inst.class = "Name" /\ op = "validate" /\ ~out.threw /\ out.isValid

\* C28: for every input NameValidator accepts, the returned value (the trimmed name) has
\* length between minLength and maxLength inclusive, and validating that value again
\* succeeds and returns the same value.
C28_NameClosed ==
    NameAccepted =>
        /\ Len(out.value[1].s) >= inst.options.minLength
        /\ Len(out.value[1].s) <= inst.options.maxLength
        /\ NameValidate(inst.options, out.value[1]) = createSuccess(out.value[1])


\* C29: a validate call that returns true leaves lastError unchanged, so getErrorMessage()
\* after a successful validate returns the message set by the most recent earlier failing
\* validate, or the validator's default message (this.options.errorMessage) if none
\* occurred since construction or the last resetError; sess["A"].own keeps that message.
C29_SuccessKeepsLastError ==
    [][/\ (op' = "validate" /\ out' = BoolResult(TRUE)) => inst'.lastError = inst.lastError
       /\ (op = "validate" /\ out = BoolResult(TRUE) /\ op' = "getErrorMessage")
              => MessageGot' = sess["A"].own]_vars

\* getErrorMessage() right after a successful validate hands out the message of an earlier
\* failing validate
C29_Witness ==
    /\ inst.class = "URL" /\ op = "getErrorMessage" /\ out = BoolResult(TRUE)
    /\ sess["A"].pc = "got"
    /\ MessageGot # inst.options.errorMessage
    /\ MessageGot = sess["A"].own


\* the codes of the length and character-class rules
PasswordEarlierCodes ==
    {"PASSWORD_TOO_SHORT", "PASSWORD_TOO_LONG", "PASSWORD_REQUIRES_UPPERCASE",
     "PASSWORD_REQUIRES_LOWERCASE", "PASSWORD_REQUIRES_NUMBER",
     "PASSWORD_REQUIRES_SPECIAL_CHAR"}

\* a validate call with default options
DefaultPasswordCall ==
    inst.class = "Password" /\ op = "validate" /\ inst.options = PasswordDefaults

\* C30: with default options PasswordValidator never returns PASSWORD_TOO_COMMON: every
\* password whose lower-cased form is in the default common-password list is rejected
\* earlier by a length or character-class rule.
C30_CommonListUnreachable ==
    DefaultPasswordCall =>
        /\ ~Failed(out, "PASSWORD_TOO_COMMON")
        /\ arg \in CommonPasswordInputs =>
               \E c \in PasswordEarlierCodes : Failed(out, c)

\* 'Password' in some spelling with both cases, long enough, stopped by the digit rule
C30_Witness ==
    /\ DefaultPasswordCall /\ IsString(arg)
    /\ ToLowerCase(arg.s) = S_password
    /\ AnyIn(arg.s, Uppers) /\ AnyIn(arg.s, Lowers)
    /\ Failed(out, "PASSWORD_REQUIRES_NUMBER")

====
